---- MODULE Spec2Model ----
(***************************************************************************)
(* State-machine model of the LeRobot teleoperation backend.               *)
(*                                                                         *)
(*   Spec        the WebSocket ingestion handler websocket_endpoint with   *)
(*               ConnectionManager, TelemetryManager, TelemetryBuffer and   *)
(*               the frame store (api/routes/websocket.py,                 *)
(*               services/telemetry.py, services/connection.py)            *)
(*   SpecBuffer  one TelemetryBuffer called by several concurrent tasks    *)
(*               (services/telemetry.py)                                   *)
(*   SpecUpload  S3StorageService.upload_video (services/storage.py)       *)
(*   SpecCache   RobotCache over its in-process map or Redis               *)
(*               (services/cache.py)                                       *)
(*   SpecCachePair  the same calls on both backends side by side           *)
(*   SpecMerge   DataMerger (scripts/merge_dataset.py)                     *)
(*   SpecMatcher TimestampMatcher.find_closest_frame                       *)
(*   SpecRegistry  ConnectionManager (services/connection.py)              *)
(*   SpecManager   TelemetryManager (services/telemetry.py)                *)
(*   SpecRace    two concurrent RobotCache calls on the in-process map     *)
(*   SpecEndpoint  POST /upload/video (api/routes/upload.py)               *)
(***************************************************************************)
EXTENDS Integers, Sequences, FiniteSets, TLC

(***************************************************************************)
(* Bounds of the model and input domains.                                  *)
(***************************************************************************)
\* Frames received over all streams of one behaviour.
MaxFrames == 4
\* settings.WS_BUFFER_SIZE ranges over 1..MaxBufferSize.
MaxBufferSize == 2
\* Payload lengths and settings.S3_MULTIPART_THRESHOLD range over 0..MaxLen,
\* settings.S3_MULTIPART_CHUNK_SIZE over 1..MaxLen.
MaxLen == 5
\* The clock of the cache runs from 0 to MaxTime ticks.
MaxTime == 5
\* Cache operations called in one behaviour.
MaxOps == 3
\* TelemetryManager calls made in one behaviour.
MaxCalls == 4

\* One element per invocation of websocket_endpoint (the stream handle).
Streams == {1, 2}
\* Both streams come from the same robot: buffer keys differ by session only.
RobotOf == [s \in Streams |-> "A"]
\* Client-supplied frame_index values: duplicates and decreasing values occur.
FrameIndexes == {0, 1}

None == "None"
\* A handler local that holds no buffer object yet (objects are named 1, 2, ...).
NoObject == 0
\* The handler local `metrics` before get_metrics ran (session ids start at 1).
NoMetrics == [session_id |-> 0, robot_id |-> None, total_frames |-> 0,
              pending_frames |-> 0, flush_count |-> 0]

(***************************************************************************)
(* Helpers on sequences.                                                   *)
(***************************************************************************)
RECURSIVE Flatten(_)
Flatten(ss) ==
    IF ss = <<>> THEN <<>> ELSE Head(ss) \o Flatten(Tail(ss))

Range(f) == {f[x] : x \in DOMAIN f}

CeilDiv(n, d) == (n + d - 1) \div d

(***************************************************************************)
(* State of the ingestion handler and of the services it uses.             *)
(***************************************************************************)
VARIABLES
    ws_buffer_size,      \* settings.WS_BUFFER_SIZE
    active_connections,  \* ConnectionManager.active_connections (list)
    teleop_sessions,     \* table teleop_sessions: row i has id i
    frame_commits,       \* table teleop_frames as the sequence of committed batches
    mgr_buffers,         \* TelemetryManager._buffers: key -> buffer object
    tbuf,                \* TelemetryBuffer objects, named by the creating stream
    pc,                  \* position of each handler
    session_id,          \* handler local session_id (0 before creation)
    buffer,              \* handler local buffer: the object it got from the manager
    frames_to_save,      \* _flush local: the batch being committed
    session_db,          \* handler local session_db: "none", "open", "closed"
    metrics,             \* handler local metrics (NoMetrics until get_metrics ran)
    received,            \* history: valid frames received, in receive order
    ending,              \* history: why the receive loop was left
    escaped,             \* history: an exception propagated out of the handler
    API_KEY,             \* settings.API_KEY
    presented,           \* history: the X-API-Key header and api_key parameter of the stream
    close_code           \* history: code of the close sent by verify_ws_api_key, 0 = none

authVars == <<API_KEY, presented, close_code>>

ingestVars == <<ws_buffer_size, active_connections, teleop_sessions, frame_commits,
                mgr_buffers, tbuf, pc, session_id, buffer, frames_to_save,
                session_db, metrics, received, ending, escaped, authVars>>

(***************************************************************************)
(* State of one TelemetryBuffer called by concurrent tasks (SpecBuffer).   *)
(***************************************************************************)
VARIABLES
    tb,            \* the TelemetryBuffer object
    tb_waiters,    \* tasks waiting in `async with self._lock`, in arrival order
    tb_pc,         \* position of each task
    tb_frame,      \* add local: the FrameData built before the lock is taken
    tb_batch,      \* _flush local frames_to_save of each task
    tb_store,      \* the batches committed to the store, in commit order
    tb_appended,   \* history: the frames in the order they were appended
    tb_calls,      \* history: number of add calls made
    tb_failed      \* history: a commit has failed

tbVars == <<tb, tb_waiters, tb_pc, tb_frame, tb_batch, tb_store, tb_appended,
            tb_calls, tb_failed>>

(***************************************************************************)
(* State of S3StorageService and of its current upload_video call          *)
(* (SpecUpload).                                                           *)
(***************************************************************************)
VARIABLES
    s3_configured,     \* S3StorageService.s3_configured (credentials and bucket set)
    multipart_threshold, \* settings.S3_MULTIPART_THRESHOLD
    multipart_chunk_size, \* settings.S3_MULTIPART_CHUNK_SIZE
    s3_available,      \* self._s3_available: None, TRUE or FALSE
    s3_client,         \* self._client: None or "client"
    up_pc,             \* position of the upload_video call
    content,           \* the payload of the call
    part_num,          \* _multipart_upload loop variable
    parts,             \* _multipart_upload local parts
    s3_calls,          \* history: remote calls attempted by the call, in order
    up_result,         \* the UploadResult returned (None while running)
    timestamp,         \* the timestamp argument of the call: "finite" or "nan"
    init_failed        \* history: _get_s3_client has failed to create a client

uploadVars == <<s3_configured, multipart_threshold, multipart_chunk_size, s3_available,
                s3_client, up_pc, content, part_num, parts, s3_calls, up_result,
                timestamp, init_failed>>

(***************************************************************************)
(* State of RobotCache and of its backend (SpecCache).                     *)
(***************************************************************************)
VARIABLES
    now,            \* time.time(), in ticks
    use_redis,      \* RobotCache._use_redis
    cache_status,   \* backend entries robot:status:{robot_id}
    cache_online,   \* backend entry robots:online
    stats,          \* RobotCache._stats (CacheStats)
    cache_ret,      \* what the last operation called returned, or that it raised
    op_count,       \* history: number of operations called
    call_counts,          \* history: completed get and update call_counts
    last_update     \* history: the last update of each robot

cacheVars == <<now, use_redis, cache_status, cache_online, stats, cache_ret,
               op_count, call_counts, last_update>>

(***************************************************************************)
(* State of two RobotCache objects, one over the in-process map and one    *)
(* over Redis, that are given the same calls at the same times             *)
(* (SpecCachePair).                                                        *)
(***************************************************************************)
VARIABLES
    pair_now,       \* time.time(), in ticks
    pair_mem,       \* backend entries of the RobotCache over InMemoryCache
    pair_redis,     \* backend entries of the RobotCache over Redis
    pair_ret,       \* what the last call returned from each of the two
    pair_ops        \* history: number of calls made

pairVars == <<pair_now, pair_mem, pair_redis, pair_ret, pair_ops>>

(***************************************************************************)
(* State of one DataMerger.merge call (scripts/merge_dataset.py),          *)
(* SpecMerge.  Times are in ticks of 1 / TicksPerSecond seconds.           *)
(***************************************************************************)
VARIABLES
    db_session,         \* TRUE iff the TeleopSession row exists
    db_frames,          \* the session's TeleopFrame rows, by frame_index
    db_chunks,          \* the session's VideoChunk rows, by start_timestamp
    video_fps,          \* CAP_PROP_FPS of the session's video files
    video_total_frames, \* CAP_PROP_FRAME_COUNT of the session's video files
    mg_pc,              \* position of merge()
    chunk_pos,          \* _prepare_extractors: index of the chunk at hand
    extractors,         \* camera_key -> id of the chunk whose file is open, 0 = none
    downloads,          \* history: ids of the chunks whose download was started
    merged,             \* merged_data
    dataset,            \* history: the LeRobotDataset that was created
    mg_result           \* the MergeResult returned

mergeVars == <<db_session, db_frames, db_chunks, video_fps, video_total_frames,
               mg_pc, chunk_pos, extractors, downloads, merged, dataset,
               mg_result>>

(***************************************************************************)
(* State of one TimestampMatcher (scripts/merge_dataset.py), SpecMatcher.  *)
(***************************************************************************)
VARIABLES
    m_timestamps,   \* history: the frame_timestamps of the last call
    m_max_diff_ms,  \* TimestampMatcher._max_diff_ms
    m_target,       \* history: the target of the last call
    m_ret           \* what the last find_closest_frame call returned

matchVars == <<m_timestamps, m_max_diff_ms, m_target, m_ret>>

(***************************************************************************)
(* State of one ConnectionManager called by several tasks                  *)
(* (services/connection.py), SpecRegistry.                                 *)
(***************************************************************************)
VARIABLES
    cm_connections, \* ConnectionManager.active_connections, a list of handles
    ws_state,       \* per handle: the state of the websocket, accept() moves it
    cn_pc,          \* per handle: the position of its connect() call
    bc_pc,          \* the position of the broadcast() call
    bc_index,       \* the index of the list iterator of broadcast (from 1)
    bc_attempted,   \* history: the handles broadcast called send_text on
    bc_snapshot,    \* history: active_connections when broadcast was called
    cm_expected     \* history: handles whose connect returned, minus those
                    \* given to disconnect since

regVars == <<cm_connections, ws_state, cn_pc, bc_pc, bc_index, bc_attempted,
             bc_snapshot, cm_expected>>

(***************************************************************************)
(* State of one TelemetryManager called by several tasks                   *)
(* (services/telemetry.py), SpecManager.                                   *)
(***************************************************************************)
VARIABLES
    tm_buffers,     \* TelemetryManager._buffers: key -> TelemetryBuffer object
    tm_created,     \* the number of TelemetryBuffer objects constructed
    tm_log          \* history: one record per completed call, in order

mgrVars == <<tm_buffers, tm_created, tm_log>>

(***************************************************************************)
(* State of one RobotCache without a reachable Redis, called by two tasks  *)
(* (services/cache.py), SpecRace.                                          *)
(***************************************************************************)
VARIABLES
    rc_redis_url,   \* RobotCache._redis_url is set
    rc_initialized, \* RobotCache._initialized
    rc_memory,      \* RobotCache._memory_cache: None or the InMemoryCache
    rc_call,        \* per task: the call it makes
    rc_pc,          \* per task: the position of its call
    rc_local,       \* per task: the local online_set of its call
    rc_before       \* history: the online set before the calls

raceVars == <<rc_redis_url, rc_initialized, rc_memory, rc_call, rc_pc, rc_local,
              rc_before>>

(***************************************************************************)
(* State of one request to POST /upload/video (api/routes/upload.py),      *)
(* SpecEndpoint.                                                           *)
(***************************************************************************)
VARIABLES
    video_max_size, \* settings.VIDEO_MAX_SIZE_MB * 1024 * 1024, in units
    ep_filename,    \* file.filename, as its parts between the dots
    ep_size,        \* file.size: [given, size]; not given is None
    ep_length,      \* the length of what file.read() returns
    ep_session,     \* a teleop_sessions row with the session_id exists
    ep_pc,          \* the position of the handler
    ep_status,      \* the HTTP status of the response, 0 before it
    ep_result,      \* the UploadResult of storage_service.upload_video
    ep_calls,       \* history: the number of storage_service calls
    ep_rows         \* the video_chunks rows committed: their file_path

epVars == <<video_max_size, ep_filename, ep_size, ep_length, ep_session, ep_pc,
            ep_status, ep_result, ep_calls, ep_rows>>

serviceVars == <<regVars, mgrVars, raceVars, epVars>>

modelVars == <<ingestVars, tbVars, uploadVars, cacheVars, pairVars, mergeVars, matchVars>>

vars == <<ingestVars, tbVars, uploadVars, cacheVars, pairVars, mergeVars, matchVars,
          serviceVars>>

\* What each specification leaves alone.
notIngestVars == <<tbVars, uploadVars, cacheVars, pairVars, mergeVars, matchVars,
    serviceVars>>
notBufferVars == <<ingestVars, uploadVars, cacheVars, pairVars, mergeVars, matchVars,
    serviceVars>>
notUploadVars == <<ingestVars, tbVars, cacheVars, pairVars, mergeVars, matchVars,
    serviceVars>>
notCacheVars == <<ingestVars, tbVars, uploadVars, pairVars, mergeVars, matchVars,
    serviceVars>>
notPairVars == <<ingestVars, tbVars, uploadVars, cacheVars, mergeVars, matchVars,
    serviceVars>>
notMergeVars == <<ingestVars, tbVars, uploadVars, cacheVars, pairVars, matchVars,
    serviceVars>>
notMatchVars == <<ingestVars, tbVars, uploadVars, cacheVars, pairVars, mergeVars,
    serviceVars>>
notRegVars == <<modelVars, mgrVars, raceVars, epVars>>
notManagerVars == <<modelVars, regVars, raceVars, epVars>>
notRaceVars == <<modelVars, regVars, mgrVars, epVars>>
notEndpointVars == <<modelVars, regVars, mgrVars, raceVars>>

(***************************************************************************)
(* TelemetryBuffer (services/telemetry.py).                                *)
(***************************************************************************)
\* __init__: buffer_size = buffer_size or settings.WS_BUFFER_SIZE; an argument
\* of None or 0 (written 0 here) selects the configured default.
TelemetryBuffer(sid, rid, size, default) ==
    [session_id |-> sid, robot_id |-> rid,
     buffer_size |-> IF size = 0 THEN default ELSE size,
     buffer |-> <<>>, total_frames |-> 0, flush_count |-> 0, locked |-> FALSE]

\* add, lines 131-137: the FrameData built for one message.
FrameData(b, frame_index, data) ==
    [session_id |-> b.session_id, robot_id |-> b.robot_id,
     frame_index |-> frame_index, data |-> data]

\* Mutant of BufferAppend: the frame is inserted at the front of the list.
BufferPrepend(b, frame) == [b EXCEPT !.buffer = <<frame>> \o @]

\* add, line 140: self._buffer.append(frame).
BufferAppend(b, frame) == [b EXCEPT !.buffer = Append(@, frame)]

\* Mutant of NeedsFlush: the threshold test is strict.
NeedsFlushStrict(b) == Len(b.buffer) > b.buffer_size

\* add, line 143: the flush threshold.
NeedsFlush(b) == Len(b.buffer) >= b.buffer_size

\* _flush, line 179: frames_to_save = self._buffer.copy().
FramesToSave(b) == b.buffer

\* Mutant of BufferClear: the drained frames stay in the list.
BufferKept(b) == b

\* _flush, line 180: self._buffer.clear().
BufferClear(b) == [b EXCEPT !.buffer = <<>>]

\* _flush, lines 184-193: the ORM rows built from the batch (the columns the
\* properties below read; the timestamp column is not carried).
DbFrames(batch) ==
    [i \in 1..Len(batch) |->
        [session_id |-> batch[i].session_id, robot_id |-> batch[i].robot_id,
         frame_index |-> batch[i].frame_index, data |-> batch[i].data]]

\* Mutant of FlushCounted: the batch is not added to total_frames.
FlushCountedOnce(b, count) == [b EXCEPT !.flush_count = @ + 1]

\* _flush, lines 199-201: the counters after a successful commit.
FlushCounted(b, count) ==
    [b EXCEPT !.total_frames = @ + count, !.flush_count = @ + 1]

\* get_metrics, lines 229-237.
get_metrics(b) ==
    [session_id |-> b.session_id, robot_id |-> b.robot_id,
     total_frames |-> b.total_frames, pending_frames |-> Len(b.buffer),
     flush_count |-> b.flush_count]

pending_count(b) == Len(b.buffer)

(***************************************************************************)
(* TelemetryManager and ConnectionManager.                                 *)
(***************************************************************************)
BufferKeyOfRobot(rid, sid) == <<rid>>
\* key = f"{robot_id}:{session_id}"
BufferKey(rid, sid) == <<rid, sid>>

active_buffer_count == Cardinality(DOMAIN mgr_buffers)

connection_count == Len(active_connections)

\* ConnectionManager.disconnect: remove the first occurrence, no-op when absent.
RemoveFirst(seq, x) ==
    IF \E i \in 1..Len(seq) : seq[i] = x
    THEN LET i == CHOOSE i \in 1..Len(seq) :
                     seq[i] = x /\ \A j \in 1..(i - 1) : seq[j] # x
         IN  SubSeq(seq, 1, i - 1) \o SubSeq(seq, i + 1, Len(seq))
    ELSE seq

(***************************************************************************)
(* The frame store as seen by the claims.                                  *)
(***************************************************************************)
\* Rows of teleop_frames in insertion (id) order.
teleop_frames == Flatten([i \in 1..Len(frame_commits) |-> frame_commits[i].rows])

\* Rows of one session, in insertion order.
SessionFrames(sid) == SelectSeq(teleop_frames, LAMBDA r : r.session_id = sid)

\* Batch commits of one session.
SessionCommits(sid) == SelectSeq(frame_commits, LAMBDA c : c.session_id = sid)

TotalReceived ==
    LET RECURSIVE Sum(_)
        Sum(S) == IF S = {} THEN 0
                  ELSE LET s == CHOOSE s \in S : TRUE
                       IN  Len(received[s]) + Sum(S \ {s})
    IN  Sum(Streams)

(***************************************************************************)
(* verify_ws_api_key (api/dependencies.py) as websocket_endpoint calls it: *)
(* with the websocket only, so that the parameter api_key has its default, *)
(* the object Header(None, alias="X-API-Key").                             *)
(***************************************************************************)
ApiKeys == {None, "k"}
Credentials == {None, "k", "bad"}
HeaderDefault == "Header(None)"
NoCredentials == [header |-> None, query |-> None]

\* Python truth value of None, a string or the Header object
Truthy(x) == x \notin {None, ""}

verify_ws_api_key(setting, api_key, header, query) ==
    IF ~Truthy(setting)
    THEN [raised |-> FALSE, close |-> 0]
    ELSE LET from_header == IF ~Truthy(api_key) THEN header ELSE api_key
             from_query == IF ~Truthy(from_header) THEN query ELSE from_header
         IN  IF ~Truthy(from_query)
             THEN [raised |-> TRUE, close |-> 4001]
             ELSE IF from_query # setting
             THEN [raised |-> TRUE, close |-> 4003]
             ELSE [raised |-> FALSE, close |-> 0]

\* websocket.py line 52: await verify_ws_api_key(websocket)
VerifyWs(header, query) == verify_ws_api_key(API_KEY, HeaderDefault, header, query)

\* what the call read of the stream's credentials: nothing when no key is set
Read(header, query) ==
    IF Truthy(API_KEY) THEN [header |-> header, query |-> query] ELSE NoCredentials

(***************************************************************************)
(* Init: the process after start-up, no stream connected.                  *)
(***************************************************************************)
InitIngest ==
    /\ ws_buffer_size \in 1..MaxBufferSize
    /\ active_connections = <<>>
    /\ teleop_sessions = <<>>
    /\ frame_commits = <<>>
    /\ mgr_buffers = <<>>
    /\ tbuf = [s \in Streams |-> None]
    /\ pc = [s \in Streams |-> "start"]
    /\ session_id = [s \in Streams |-> 0]
    /\ buffer = [s \in Streams |-> NoObject]
    /\ frames_to_save = [s \in Streams |-> <<>>]
    /\ session_db = [s \in Streams |-> "none"]
    /\ metrics = [s \in Streams |-> NoMetrics]
    /\ received = [s \in Streams |-> <<>>]
    /\ ending = [s \in Streams |-> "none"]
    /\ escaped = [s \in Streams |-> FALSE]
    /\ API_KEY \in ApiKeys
    /\ presented = [s \in Streams |-> NoCredentials]
    /\ close_code = [s \in Streams |-> 0]

(***************************************************************************)
(* websocket_endpoint, one action per step between suspension points.      *)
(***************************************************************************)
\* lines 51-57: verify_ws_api_key returned; manager.connect(websocket) accepts
\* and registers the handle.  There is no suspension point between the two.
Connect(s, header, query) ==
    /\ pc[s] = "start"
    /\ ~VerifyWs(header, query).raised
    /\ active_connections' = Append(active_connections, s)
    /\ session_db' = [session_db EXCEPT ![s] = "open"]
    /\ pc' = [pc EXCEPT ![s] = "create_session"]
    /\ presented' = [presented EXCEPT ![s] = Read(header, query)]
    /\ UNCHANGED <<notIngestVars, ws_buffer_size, teleop_sessions, frame_commits, mgr_buffers, tbuf,
                   session_id, buffer, frames_to_save, metrics, received, ending, escaped,
                   API_KEY, close_code>>

\* lines 51-54: verify_ws_api_key closed the socket and raised; the handler
\* returns before manager.connect.
Reject(s, header, query) ==
    /\ pc[s] = "start"
    /\ VerifyWs(header, query).raised
    /\ close_code' = [close_code EXCEPT ![s] = VerifyWs(header, query).close]
    /\ presented' = [presented EXCEPT ![s] = Read(header, query)]
    /\ pc' = [pc EXCEPT ![s] = "rejected"]
    /\ UNCHANGED <<notIngestVars, ws_buffer_size, active_connections, teleop_sessions, frame_commits,
                   mgr_buffers, tbuf, session_id, buffer, frames_to_save, session_db,
                   metrics, received, ending, escaped, API_KEY>>

\* lines 61-66: the session row is committed and refreshed to obtain its id.
CreateSession(s) ==
    /\ pc[s] = "create_session"
    /\ teleop_sessions' = Append(teleop_sessions,
                                 [robot_id |-> RobotOf[s], fps |-> 60, end_time |-> None])
    /\ session_id' = [session_id EXCEPT ![s] = Len(teleop_sessions) + 1]
    /\ pc' = [pc EXCEPT ![s] = "get_buffer"]
    /\ UNCHANGED <<notIngestVars, authVars, ws_buffer_size, active_connections, frame_commits, mgr_buffers, tbuf,
                   buffer, frames_to_save, session_db, metrics, received, ending,
                   escaped>>

\* line 64 raising: the commit of the session row fails before the try block, so
\* the exception leaves the handler with nothing cleaned up.
CreateSessionFail(s) ==
    /\ pc[s] = "create_session"
    /\ pc' = [pc EXCEPT ![s] = "done"]
    /\ ending' = [ending EXCEPT ![s] = "open_error"]
    /\ escaped' = [escaped EXCEPT ![s] = TRUE]
    /\ UNCHANGED <<notIngestVars, authVars, ws_buffer_size, active_connections, teleop_sessions, frame_commits,
                   mgr_buffers, tbuf, session_id, buffer, frames_to_save, session_db,
                   metrics, received>>

\* lines 69-72 and TelemetryManager.get_or_create_buffer.
get_or_create_buffer(s) ==
    LET key == BufferKey(RobotOf[s], session_id[s]) IN
    /\ pc[s] = "get_buffer"
    /\ IF key \in DOMAIN mgr_buffers
       THEN /\ buffer' = [buffer EXCEPT ![s] = mgr_buffers[key]]
            /\ UNCHANGED <<mgr_buffers, tbuf>>
       ELSE /\ tbuf' = [tbuf EXCEPT ![s] =
                          TelemetryBuffer(session_id[s], RobotOf[s], 0, ws_buffer_size)]
            /\ mgr_buffers' = mgr_buffers @@ (key :> s)
            /\ buffer' = [buffer EXCEPT ![s] = s]
    /\ pc' = [pc EXCEPT ![s] = "recv"]
    /\ UNCHANGED <<notIngestVars, authVars, ws_buffer_size, active_connections, teleop_sessions, frame_commits,
                   session_id, frames_to_save, session_db, metrics, received, ending,
                   escaped>>

\* lines 83-92 with TelemetryBuffer.add up to its first suspension: a valid JSON
\* object is received, appended under the lock and, at the threshold, drained
\* into a batch whose commit is awaited.
ReceiveFrame(s, frame_index) ==
    LET o  == buffer[s]
        b0 == tbuf[o]
        b1 == BufferAppend(b0, FrameData(b0, frame_index, Len(received[s]) + 1))
    IN
    /\ pc[s] = "recv"
    /\ TotalReceived < MaxFrames
    /\ ~b0.locked
    /\ received' = [received EXCEPT ![s] =
                      Append(@, [frame_index |-> frame_index, data |-> Len(@) + 1])]
    /\ IF NeedsFlush(b1)
       THEN /\ frames_to_save' = [frames_to_save EXCEPT ![s] = FramesToSave(b1)]
            /\ tbuf' = [tbuf EXCEPT ![o] = [BufferClear(b1) EXCEPT !.locked = TRUE]]
            /\ pc' = [pc EXCEPT ![s] = "add_commit"]
       ELSE /\ tbuf' = [tbuf EXCEPT ![o] = b1]
            /\ UNCHANGED <<frames_to_save, pc>>
    /\ UNCHANGED <<notIngestVars, authVars, ws_buffer_size, active_connections, teleop_sessions, frame_commits,
                   mgr_buffers, session_id, buffer, session_db, metrics, ending,
                   escaped>>

\* _flush, lines 196-201, and the return of add: the batch is committed.
AddCommitOk(s) ==
    LET o == buffer[s] IN
    /\ pc[s] = "add_commit"
    /\ frame_commits' = Append(frame_commits,
                               [session_id |-> tbuf[o].session_id, via |-> "add",
                                rows |-> DbFrames(frames_to_save[s])])
    /\ tbuf' = [tbuf EXCEPT ![o] =
                  [FlushCounted(@, Len(frames_to_save[s])) EXCEPT !.locked = FALSE]]
    /\ frames_to_save' = [frames_to_save EXCEPT ![s] = <<>>]
    /\ pc' = [pc EXCEPT ![s] = "recv"]
    /\ UNCHANGED <<notIngestVars, authVars, ws_buffer_size, active_connections, teleop_sessions, mgr_buffers,
                   session_id, buffer, session_db, metrics, received, ending, escaped>>

\* _flush, line 197 raising inside add: the exception leaves add (releasing the
\* lock) and is caught by `except Exception` (lines 114-121), which only logs.
AddCommitFail(s) ==
    LET o == buffer[s] IN
    /\ pc[s] = "add_commit"
    /\ tbuf' = [tbuf EXCEPT ![o].locked = FALSE]
    /\ frames_to_save' = [frames_to_save EXCEPT ![s] = <<>>]
    /\ ending' = [ending EXCEPT ![s] = "commit_error"]
    /\ pc' = [pc EXCEPT ![s] = "finally"]
    /\ UNCHANGED <<notIngestVars, authVars, ws_buffer_size, active_connections, teleop_sessions, frame_commits,
                   mgr_buffers, session_id, buffer, session_db, metrics, received,
                   escaped>>

\* line 84 raising: the text is not valid JSON; json.loads raises ValueError,
\* which `except Exception` (lines 114-121) catches and logs.
ReceiveMalformed(s) ==
    /\ pc[s] = "recv"
    /\ ending' = [ending EXCEPT ![s] = "malformed"]
    /\ pc' = [pc EXCEPT ![s] = "finally"]
    /\ UNCHANGED <<notIngestVars, authVars, ws_buffer_size, active_connections, teleop_sessions, frame_commits,
                   mgr_buffers, tbuf, session_id, buffer, frames_to_save, session_db,
                   metrics, received, escaped>>

\* line 83 raising an exception other than WebSocketDisconnect (a network or
\* protocol error): caught and logged by `except Exception`.
ReceiveError(s) ==
    /\ pc[s] = "recv"
    /\ ending' = [ending EXCEPT ![s] = "error"]
    /\ pc' = [pc EXCEPT ![s] = "finally"]
    /\ UNCHANGED <<notIngestVars, authVars, ws_buffer_size, active_connections, teleop_sessions, frame_commits,
                   mgr_buffers, tbuf, session_id, buffer, frames_to_save, session_db,
                   metrics, received, escaped>>

\* lines 94-95: WebSocketDisconnect is caught and the handle is deregistered.
ReceiveDisconnect(s) ==
    /\ pc[s] = "recv"
    /\ active_connections' = RemoveFirst(active_connections, s)
    /\ ending' = [ending EXCEPT ![s] = "disconnect"]
    /\ pc' = [pc EXCEPT ![s] = "close_flush"]
    /\ UNCHANGED <<notIngestVars, authVars, ws_buffer_size, teleop_sessions, frame_commits, mgr_buffers, tbuf,
                   session_id, buffer, frames_to_save, session_db, metrics, received,
                   escaped>>

\* line 98 and flush_all, lines 164-167, up to the awaited commit.
flush_all(s) ==
    LET o == buffer[s]
        b == tbuf[o]
    IN
    /\ pc[s] = "close_flush"
    /\ ~b.locked
    /\ IF b.buffer = <<>>
       THEN /\ pc' = [pc EXCEPT ![s] = "close_metrics"]
            /\ UNCHANGED <<tbuf, frames_to_save>>
       ELSE /\ frames_to_save' = [frames_to_save EXCEPT ![s] = FramesToSave(b)]
            /\ tbuf' = [tbuf EXCEPT ![o] = [BufferClear(b) EXCEPT !.locked = TRUE]]
            /\ pc' = [pc EXCEPT ![s] = "close_commit"]
    /\ UNCHANGED <<notIngestVars, authVars, ws_buffer_size, active_connections, teleop_sessions, frame_commits,
                   mgr_buffers, session_id, buffer, session_db, metrics, received,
                   ending, escaped>>

\* _flush, lines 196-201, called from flush_all: the residual batch is committed.
CloseCommitOk(s) ==
    LET o == buffer[s] IN
    /\ pc[s] = "close_commit"
    /\ frame_commits' = Append(frame_commits,
                               [session_id |-> tbuf[o].session_id, via |-> "flush_all",
                                rows |-> DbFrames(frames_to_save[s])])
    /\ tbuf' = [tbuf EXCEPT ![o] =
                  [FlushCounted(@, Len(frames_to_save[s])) EXCEPT !.locked = FALSE]]
    /\ frames_to_save' = [frames_to_save EXCEPT ![s] = <<>>]
    /\ pc' = [pc EXCEPT ![s] = "close_metrics"]
    /\ UNCHANGED <<notIngestVars, authVars, ws_buffer_size, active_connections, teleop_sessions, mgr_buffers,
                   session_id, buffer, session_db, metrics, received, ending, escaped>>

\* _flush, line 197 raising inside flush_all: the exception is raised inside the
\* `except WebSocketDisconnect` block, so no sibling handler catches it; only
\* the finally block runs before it leaves the handler.
CloseCommitFail(s) ==
    LET o == buffer[s] IN
    /\ pc[s] = "close_commit"
    /\ tbuf' = [tbuf EXCEPT ![o].locked = FALSE]
    /\ frames_to_save' = [frames_to_save EXCEPT ![s] = <<>>]
    /\ ending' = [ending EXCEPT ![s] = "close_commit_error"]
    /\ pc' = [pc EXCEPT ![s] = "finally"]
    /\ UNCHANGED <<notIngestVars, authVars, ws_buffer_size, active_connections, teleop_sessions, frame_commits,
                   mgr_buffers, session_id, buffer, session_db, metrics, received,
                   escaped>>

\* line 99: metrics = buffer.get_metrics().
GetMetrics(s) ==
    /\ pc[s] = "close_metrics"
    /\ metrics' = [metrics EXCEPT ![s] = get_metrics(tbuf[buffer[s]])]
    /\ pc' = [pc EXCEPT ![s] = "close_remove"]
    /\ UNCHANGED <<notIngestVars, authVars, ws_buffer_size, active_connections, teleop_sessions, frame_commits,
                   mgr_buffers, tbuf, session_id, buffer, frames_to_save, session_db,
                   received, ending, escaped>>

\* line 112 and TelemetryManager.remove_buffer.
remove_buffer(s) ==
    LET key == BufferKey(RobotOf[s], session_id[s]) IN
    /\ pc[s] = "close_remove"
    /\ mgr_buffers' = [k \in DOMAIN mgr_buffers \ {key} |-> mgr_buffers[k]]
    /\ pc' = [pc EXCEPT ![s] = "finally"]
    /\ UNCHANGED <<notIngestVars, authVars, ws_buffer_size, active_connections, teleop_sessions, frame_commits,
                   tbuf, session_id, buffer, frames_to_save, session_db, metrics,
                   received, ending, escaped>>

\* Task cancellation (server shutdown) at a suspension point of the try block:
\* CancelledError is not an Exception, so only the finally block runs. A
\* cancelled commit releases the buffer lock and persists nothing.
Cancel(s) ==
    /\ pc[s] \in {"recv", "add_commit", "close_commit"}
    /\ IF pc[s] = "recv"
       THEN UNCHANGED <<tbuf, frames_to_save>>
       ELSE /\ tbuf' = [tbuf EXCEPT ![buffer[s]].locked = FALSE]
            /\ frames_to_save' = [frames_to_save EXCEPT ![s] = <<>>]
    /\ ending' = [ending EXCEPT ![s] =
                    IF ending[s] = "disconnect" THEN "cancelled_close"
                    ELSE IF pc[s] = "recv" THEN "cancelled_recv" ELSE "cancelled_add"]
    /\ pc' = [pc EXCEPT ![s] = "finally"]
    /\ UNCHANGED <<notIngestVars, authVars, ws_buffer_size, active_connections, teleop_sessions, frame_commits,
                   mgr_buffers, session_id, buffer, session_db, metrics, received,
                   escaped>>

\* Endings after which an exception is still propagating when finally runs.
Propagating == {"close_commit_error", "cancelled_recv", "cancelled_add", "cancelled_close"}

\* lines 122-123: finally: await session_db.close(); then the handler is left.
Finally(s) ==
    /\ pc[s] = "finally"
    /\ session_db' = [session_db EXCEPT ![s] = "closed"]
    /\ escaped' = [escaped EXCEPT ![s] = ending[s] \in Propagating]
    /\ pc' = [pc EXCEPT ![s] = "done"]
    /\ UNCHANGED <<notIngestVars, authVars, ws_buffer_size, active_connections, teleop_sessions, frame_commits,
                   mgr_buffers, tbuf, session_id, buffer, frames_to_save, metrics,
                   received, ending>>

Next ==
    \E s \in Streams :
        \/ \E header, query \in Credentials : Connect(s, header, query)
        \/ \E header, query \in Credentials : Reject(s, header, query)
        \/ CreateSession(s)
        \/ CreateSessionFail(s)
        \/ get_or_create_buffer(s)
        \/ \E fi \in FrameIndexes : ReceiveFrame(s, fi)
        \/ AddCommitOk(s)
        \/ AddCommitFail(s)
        \/ ReceiveMalformed(s)
        \/ ReceiveError(s)
        \/ ReceiveDisconnect(s)
        \/ flush_all(s)
        \/ CloseCommitOk(s)
        \/ CloseCommitFail(s)
        \/ GetMetrics(s)
        \/ remove_buffer(s)
        \/ Cancel(s)
        \/ Finally(s)

\* The state of the parts a specification does not run.
IdleBuffer ==
    /\ tb = None
    /\ tb_waiters = <<>>
    /\ tb_pc = <<>>
    /\ tb_frame = <<>>
    /\ tb_batch = <<>>
    /\ tb_store = <<>>
    /\ tb_appended = <<>>
    /\ tb_calls = 0
    /\ tb_failed = FALSE

IdleCache ==
    /\ now = 0
    /\ use_redis = FALSE
    /\ cache_status = <<>>
    /\ cache_online = <<>>
    /\ stats = <<>>
    /\ cache_ret = <<>>
    /\ op_count = 0
    /\ call_counts = <<>>
    /\ last_update = <<>>

IdlePair ==
    /\ pair_now = 0
    /\ pair_mem = <<>>
    /\ pair_redis = <<>>
    /\ pair_ret = <<>>
    /\ pair_ops = 0

IdleMerge ==
    /\ db_session = FALSE
    /\ db_frames = <<>>
    /\ db_chunks = <<>>
    /\ video_fps = 0
    /\ video_total_frames = 0
    /\ mg_pc = "idle"
    /\ chunk_pos = 0
    /\ extractors = <<>>
    /\ downloads = <<>>
    /\ merged = <<>>
    /\ dataset = <<>>
    /\ mg_result = <<>>

IdleMatch ==
    /\ m_timestamps = <<>>
    /\ m_max_diff_ms = 0
    /\ m_target = 0
    /\ m_ret = <<>>

Handles == {1, 2, 3}

IdleRegistry ==
    /\ cm_connections = <<>>
    /\ ws_state = [h \in Handles |-> "CONNECTING"]
    /\ cn_pc = [h \in Handles |-> "idle"]
    /\ bc_pc = "idle"
    /\ bc_index = 0
    /\ bc_attempted = <<>>
    /\ bc_snapshot = <<>>
    /\ cm_expected = {}

IdleManager ==
    /\ tm_buffers = <<>>
    /\ tm_created = 0
    /\ tm_log = <<>>

IdleRace ==
    /\ rc_redis_url = FALSE
    /\ rc_initialized = FALSE
    /\ rc_memory = <<>>
    /\ rc_call = <<>>
    /\ rc_pc = <<>>
    /\ rc_local = <<>>
    /\ rc_before = {}

IdleEndpoint ==
    /\ video_max_size = 0
    /\ ep_filename = <<>>
    /\ ep_size = <<>>
    /\ ep_length = 0
    /\ ep_session = FALSE
    /\ ep_pc = "idle"
    /\ ep_status = 0
    /\ ep_result = <<>>
    /\ ep_calls = 0
    /\ ep_rows = <<>>

IdleServices == IdleRegistry /\ IdleManager /\ IdleRace /\ IdleEndpoint

IdleUpload ==
    /\ s3_configured = FALSE
    /\ multipart_threshold = 0
    /\ multipart_chunk_size = 0
    /\ s3_available = None
    /\ s3_client = None
    /\ up_pc = "idle"
    /\ content = <<>>
    /\ part_num = 0
    /\ parts = <<>>
    /\ s3_calls = <<>>
    /\ up_result = <<>>
    /\ timestamp = "finite"
    /\ init_failed = FALSE

IdleIngest ==
    /\ ws_buffer_size = 0
    /\ active_connections = <<>>
    /\ teleop_sessions = <<>>
    /\ frame_commits = <<>>
    /\ mgr_buffers = <<>>
    /\ tbuf = <<>>
    /\ pc = [s \in Streams |-> "start"]
    /\ session_id = <<>>
    /\ buffer = <<>>
    /\ frames_to_save = <<>>
    /\ session_db = <<>>
    /\ metrics = <<>>
    /\ received = <<>>
    /\ ending = [s \in Streams |-> "none"]
    /\ escaped = <<>>
    /\ API_KEY = None
    /\ presented = <<>>
    /\ close_code = <<>>

IdleModel ==
    /\ IdleIngest /\ IdleBuffer /\ IdleUpload /\ IdleCache
    /\ IdlePair /\ IdleMerge /\ IdleMatch

Init == InitIngest /\ IdleBuffer /\ IdleUpload /\ IdleCache /\ IdlePair
    /\ IdleMerge /\ IdleMatch
    /\ IdleServices

Spec == Init /\ [][Next]_vars

(***************************************************************************)
(* SpecBuffer: TelemetryBuffer.add and flush_all called by concurrent      *)
(* tasks of one event loop. A task runs without interruption between its   *)
(* suspension points: waiting for the lock and awaiting db.commit().       *)
(***************************************************************************)
Tasks == {1, 2, 3}

\* Mutant of LockFree: the lock is ignored.
LockIgnored(b, waiters) == TRUE

\* asyncio.Lock.acquire as used by `async with self._lock` (add line 139,
\* flush_all line 164): the lock is taken at once only when it is not held and
\* no earlier task is waiting for it.
LockFree(b, waiters) == ~b.locked /\ waiters = <<>>

InitBuffer ==
    /\ \E size \in 1..MaxBufferSize : tb = TelemetryBuffer(1, "A", 0, size)
    /\ tb_waiters = <<>>
    /\ tb_pc = [t \in Tasks |-> "idle"]
    /\ tb_frame = [t \in Tasks |-> None]
    /\ tb_batch = [t \in Tasks |-> <<>>]
    /\ tb_store = <<>>
    /\ tb_appended = <<>>
    /\ tb_calls = 0
    /\ tb_failed = FALSE

\* add, lines 139-145, run by task t once it holds the lock: append, then at the
\* threshold drain the list and await the commit, else release the lock.
AddLocked(t, frame, waiters) ==
    LET b1 == BufferAppend(tb, frame) IN
    /\ tb_appended' = Append(tb_appended, frame)
    /\ tb_waiters' = waiters
    /\ tb_frame' = [tb_frame EXCEPT ![t] = None]
    /\ IF NeedsFlush(b1)
       THEN /\ tb_batch' = [tb_batch EXCEPT ![t] = FramesToSave(b1)]
            /\ tb' = [BufferClear(b1) EXCEPT !.locked = TRUE]
            /\ tb_pc' = [tb_pc EXCEPT ![t] = "add_commit"]
       ELSE /\ tb' = [b1 EXCEPT !.locked = FALSE]
            /\ tb_pc' = [tb_pc EXCEPT ![t] = "idle"]
            /\ UNCHANGED tb_batch

\* flush_all, lines 164-167, run by task t once it holds the lock.
FlushAllLocked(t, waiters) ==
    /\ tb_waiters' = waiters
    /\ IF tb.buffer = <<>>
       THEN /\ tb' = [tb EXCEPT !.locked = FALSE]
            /\ tb_pc' = [tb_pc EXCEPT ![t] = "idle"]
            /\ UNCHANGED tb_batch
       ELSE /\ tb_batch' = [tb_batch EXCEPT ![t] = FramesToSave(tb)]
            /\ tb' = [BufferClear(tb) EXCEPT !.locked = TRUE]
            /\ tb_pc' = [tb_pc EXCEPT ![t] = "flush_commit"]
    /\ UNCHANGED <<tb_appended, tb_frame>>

\* A task calls add (lines 129-139): the frame is built, then the lock is taken
\* or waited for.
CallAdd(t, frame_index) ==
    LET frame == FrameData(tb, frame_index, tb_calls + 1) IN
    /\ tb_pc[t] = "idle"
    /\ tb_calls < MaxFrames
    /\ tb_calls' = tb_calls + 1
    /\ IF LockFree(tb, tb_waiters)
       THEN AddLocked(t, frame, tb_waiters)
       ELSE /\ tb_waiters' = Append(tb_waiters, t)
            /\ tb_frame' = [tb_frame EXCEPT ![t] = frame]
            /\ tb_pc' = [tb_pc EXCEPT ![t] = "add_wait"]
            /\ UNCHANGED <<tb, tb_batch, tb_appended>>
    /\ UNCHANGED <<notBufferVars, tb_store, tb_failed>>

\* A task calls flush_all (line 164) while frames are pending or the lock is held.
CallFlushAll(t) ==
    /\ tb_pc[t] = "idle"
    /\ tb.buffer # <<>> \/ tb.locked
    /\ IF LockFree(tb, tb_waiters)
       THEN FlushAllLocked(t, tb_waiters)
       ELSE /\ tb_waiters' = Append(tb_waiters, t)
            /\ tb_pc' = [tb_pc EXCEPT ![t] = "flush_wait"]
            /\ UNCHANGED <<tb, tb_batch, tb_appended, tb_frame>>
    /\ UNCHANGED <<notBufferVars, tb_store, tb_calls, tb_failed>>

\* The lock was released and t is the first waiter: it takes the lock and goes on.
ResumeAdd(t) ==
    /\ tb_pc[t] = "add_wait"
    /\ ~tb.locked
    /\ tb_waiters # <<>> /\ Head(tb_waiters) = t
    /\ AddLocked(t, tb_frame[t], Tail(tb_waiters))
    /\ UNCHANGED <<notBufferVars, tb_store, tb_calls, tb_failed>>

ResumeFlushAll(t) ==
    /\ tb_pc[t] = "flush_wait"
    /\ ~tb.locked
    /\ tb_waiters # <<>> /\ Head(tb_waiters) = t
    /\ FlushAllLocked(t, Tail(tb_waiters))
    /\ UNCHANGED <<notBufferVars, tb_store, tb_calls, tb_failed>>

\* _flush, lines 196-201: the awaited commit succeeds; the counters are updated
\* and the lock is released on the way out.
CommitOk(t) ==
    /\ tb_pc[t] \in {"add_commit", "flush_commit"}
    /\ tb_store' = Append(tb_store, DbFrames(tb_batch[t]))
    /\ tb' = [FlushCounted(tb, Len(tb_batch[t])) EXCEPT !.locked = FALSE]
    /\ tb_batch' = [tb_batch EXCEPT ![t] = <<>>]
    /\ tb_pc' = [tb_pc EXCEPT ![t] = "idle"]
    /\ UNCHANGED <<notBufferVars, tb_waiters, tb_frame, tb_appended, tb_calls, tb_failed>>

BatchRetained(b, batch) == [b EXCEPT !.buffer = batch \o @]
\* _flush, line 197 raising: lines 199-201 are skipped and nothing puts the
\* drained frames back.
AfterFailedCommit(b, batch) == b

\* _flush, line 197 raising: the batch is gone, the lock is released and the
\* exception goes to the caller of add or flush_all.
CommitFail(t) ==
    /\ tb_pc[t] \in {"add_commit", "flush_commit"}
    /\ tb' = [AfterFailedCommit(tb, tb_batch[t]) EXCEPT !.locked = FALSE]
    /\ tb_batch' = [tb_batch EXCEPT ![t] = <<>>]
    /\ tb_failed' = TRUE
    /\ tb_pc' = [tb_pc EXCEPT ![t] = "idle"]
    /\ UNCHANGED <<notBufferVars, tb_waiters, tb_frame, tb_store, tb_appended, tb_calls>>

NextBuffer ==
    \E t \in Tasks :
        \/ \E fi \in FrameIndexes : CallAdd(t, fi)
        \/ CallFlushAll(t)
        \/ ResumeAdd(t)
        \/ ResumeFlushAll(t)
        \/ CommitOk(t)
        \/ CommitFail(t)

InitBufferTasks == InitBuffer /\ IdleIngest /\ IdleUpload /\ IdleCache /\ IdlePair
    /\ IdleMerge /\ IdleMatch
    /\ IdleServices

SpecBuffer == InitBufferTasks /\ [][NextBuffer]_vars

(***************************************************************************)
(* SpecUpload: S3StorageService.upload_video (services/storage.py), one    *)
(* call after another on the process-wide service object.                  *)
(***************************************************************************)
\* The payload is a sequence of distinct bytes.
Payload(len) == [i \in 1..len |-> i]

Min(a, b) == IF a <= b THEN a ELSE b

\* The field values of UploadResult before a call has returned.
NoResult == [success |-> FALSE, storage_type |-> None, path |-> None, error |-> None]

\* One call on the remote client, as the remote sees it.
S3Call(op, part_number, body, part_list) ==
    [op |-> op, PartNumber |-> part_number, Body |-> body, Parts |-> part_list]

\* Mutant of NumParts: the part count is rounded down.
NumPartsFloor(content_size, chunk_size) == content_size \div chunk_size

\* _multipart_upload, line 311.
NumParts(content_size, chunk_size) == (content_size + chunk_size - 1) \div chunk_size

\* _multipart_upload, lines 326-328: chunk = content[start:end].
ChunkStart(n, chunk_size) == (n - 1) * chunk_size
ChunkEnd(n, chunk_size, content_size) ==
    Min(ChunkStart(n, chunk_size) + chunk_size, content_size)
Chunk(bytes, n, chunk_size) ==
    SubSeq(bytes, ChunkStart(n, chunk_size) + 1, ChunkEnd(n, chunk_size, Len(bytes)))

\* upload_video, line 188, and _upload_to_s3, line 246: where the call goes once
\* the backend is known.
Dispatch(available, content_size) ==
    IF available = "True"
    THEN IF content_size >= multipart_threshold THEN "create" ELSE "put"
    ELSE "local"

\* The timestamp arguments: a finite float, or one int() cannot convert.
Timestamps == {"finite", "nan"}

\* _generate_s3_key line 148 and _generate_local_path line 154: int(timestamp)
\* raises ValueError for NaN and OverflowError for an infinity.
IntRaises(ts) == ts # "finite"

\* upload_video lines 188-203 with _upload_to_s3 line 235 and _upload_to_local
\* line 376: the object key or the file path is generated before the `try` of
\* either backend, so an exception of int(timestamp) leaves upload_video.
EnterBackend(available, content_size, ts) ==
    IF IntRaises(ts) THEN "raised" ELSE Dispatch(available, content_size)

\* _upload_to_s3 lines 269-275 and 290-297, _upload_to_local lines 399-405 and
\* 420-427: the UploadResult values.
Success(kind) ==
    [success |-> TRUE, storage_type |-> kind,
     path |-> IF kind = "s3" THEN "s3_uri" ELSE "local_path", error |-> None]
Failure(kind) ==
    [success |-> FALSE, storage_type |-> kind, path |-> "", error |-> "error"]

InitUpload ==
    /\ s3_configured \in BOOLEAN
    /\ multipart_threshold \in 0..MaxLen
    /\ multipart_chunk_size \in 1..MaxLen
    /\ s3_available = None
    /\ s3_client = None
    /\ up_pc = "idle"
    /\ content = <<>>
    /\ part_num = 0
    /\ parts = <<>>
    /\ s3_calls = <<>>
    /\ up_result = NoResult
    /\ timestamp = "finite"
    /\ init_failed = FALSE

\* upload_video, lines 181-186, is called with a payload of `len` bytes.
StartUpload(len, ts) ==
    /\ up_pc \in {"idle", "returned", "cancelled", "raised"}
    /\ content' = Payload(len)
    /\ timestamp' = ts
    /\ part_num' = 0
    /\ parts' = <<>>
    /\ s3_calls' = <<>>
    /\ up_result' = NoResult
    /\ up_pc' = IF s3_configured THEN "get_client"
                ELSE EnterBackend(s3_available, len, ts)
    /\ UNCHANGED <<notUploadVars, init_failed, s3_configured, multipart_threshold,
                   multipart_chunk_size, s3_available, s3_client>>

\* _get_s3_client, lines 110 and 139: a client exists already.
GetClientCached ==
    /\ up_pc = "get_client"
    /\ s3_client # None
    /\ up_pc' = EnterBackend(s3_available, Len(content), timestamp)
    /\ UNCHANGED <<notUploadVars, timestamp, init_failed, s3_configured, multipart_threshold,
                   multipart_chunk_size, s3_available, s3_client, content, part_num,
                   parts, s3_calls, up_result>>

\* _get_s3_client, lines 110-132: no client yet; the SDK is imported and the
\* client created.
GetClientOk ==
    /\ up_pc = "get_client"
    /\ s3_client = None
    /\ s3_client' = "client"
    /\ s3_available' = "True"
    /\ up_pc' = EnterBackend("True", Len(content), timestamp)
    /\ UNCHANGED <<notUploadVars, timestamp, init_failed, s3_configured, multipart_threshold,
                   multipart_chunk_size, content, part_num, parts, s3_calls,
                   up_result>>

\* _get_s3_client, lines 133-138: the import or the client creation fails.
GetClientFail ==
    /\ up_pc = "get_client"
    /\ s3_client = None
    /\ s3_available' = "False"
    /\ init_failed' = TRUE
    /\ up_pc' = EnterBackend("False", Len(content), timestamp)
    /\ UNCHANGED <<notUploadVars, timestamp, s3_configured, multipart_threshold,
                   multipart_chunk_size, s3_client, content, part_num, parts,
                   s3_calls, up_result>>

\* _upload_to_s3, lines 255-275 (ok) or 277-297 (put_object raises).
PutObject(ok) ==
    /\ up_pc = "put"
    /\ s3_calls' = Append(s3_calls, S3Call("put_object", 0, content, <<>>))
    /\ up_result' = IF ok THEN Success("s3") ELSE Failure("s3")
    /\ up_pc' = "returned"
    /\ UNCHANGED <<notUploadVars, timestamp, init_failed, s3_configured, multipart_threshold,
                   multipart_chunk_size, s3_available, s3_client, content, part_num,
                   parts>>

\* _multipart_upload, lines 311-322; when create_multipart_upload raises, the
\* exception is raised before the inner try and _upload_to_s3 turns it into a
\* failed result.
CreateMultipartUpload(ok) ==
    /\ up_pc = "create"
    /\ s3_calls' = Append(s3_calls, S3Call("create_multipart_upload", 0, <<>>, <<>>))
    /\ IF ok
       THEN /\ part_num' = 1
            /\ up_pc' = IF NumParts(Len(content), multipart_chunk_size) >= 1
                        THEN "part" ELSE "complete"
            /\ UNCHANGED up_result
       ELSE /\ up_result' = Failure("s3")
            /\ up_pc' = "returned"
            /\ UNCHANGED part_num
    /\ UNCHANGED <<notUploadVars, timestamp, init_failed, s3_configured, multipart_threshold,
                   multipart_chunk_size, s3_available, s3_client, content, parts>>

\* _multipart_upload, lines 325-346: one iteration of the part loop.
UploadPart(ok) ==
    /\ up_pc = "part"
    /\ s3_calls' = Append(s3_calls,
                          S3Call("upload_part", part_num,
                                 Chunk(content, part_num, multipart_chunk_size), <<>>))
    /\ IF ok
       THEN /\ parts' = Append(parts, part_num)
            /\ part_num' = part_num + 1
            /\ up_pc' = IF part_num + 1 > NumParts(Len(content), multipart_chunk_size)
                        THEN "complete" ELSE "part"
       ELSE /\ up_pc' = "abort"
            /\ UNCHANGED <<parts, part_num>>
    /\ UNCHANGED <<notUploadVars, timestamp, init_failed, s3_configured, multipart_threshold,
                   multipart_chunk_size, s3_available, s3_client, content, up_result>>

\* _multipart_upload, lines 349-356.
CompleteMultipartUpload(ok) ==
    /\ up_pc = "complete"
    /\ s3_calls' = Append(s3_calls, S3Call("complete_multipart_upload", 0, <<>>, parts))
    /\ IF ok
       THEN /\ up_result' = Success("s3")
            /\ up_pc' = "returned"
       ELSE /\ up_pc' = "abort"
            /\ UNCHANGED up_result
    /\ UNCHANGED <<notUploadVars, timestamp, init_failed, s3_configured, multipart_threshold,
                   multipart_chunk_size, s3_available, s3_client, content, part_num,
                   parts>>

\* Mutant of AbortMultipartUpload: the failure is surfaced without the abort
\* call.
AbortNotCalled(ok) ==
    /\ up_pc = "abort"
    /\ up_result' = Failure("s3")
    /\ up_pc' = "returned"
    /\ UNCHANGED <<notUploadVars, timestamp, init_failed, s3_configured,
                   multipart_threshold, multipart_chunk_size, s3_available, s3_client,
                   content, part_num, parts, s3_calls>>

\* _multipart_upload, lines 358-365: abort, then the exception (the original
\* one, or the one abort raised) reaches _upload_to_s3, lines 277-297.
AbortMultipartUpload(ok) ==
    /\ up_pc = "abort"
    /\ s3_calls' = Append(s3_calls, S3Call("abort_multipart_upload", 0, <<>>, <<>>))
    /\ up_result' = Failure("s3")
    /\ up_pc' = "returned"
    /\ UNCHANGED <<notUploadVars, timestamp, init_failed, s3_configured, multipart_threshold,
                   multipart_chunk_size, s3_available, s3_client, content, part_num,
                   parts>>

\* _upload_to_local, lines 385-427.
UploadToLocal(ok) ==
    /\ up_pc = "local"
    /\ up_result' = IF ok THEN Success("local") ELSE Failure("local")
    /\ up_pc' = "returned"
    /\ UNCHANGED <<notUploadVars, timestamp, init_failed, s3_configured, multipart_threshold,
                   multipart_chunk_size, s3_available, s3_client, content, part_num,
                   parts, s3_calls>>

\* The task running upload_video is cancelled while it awaits the remote or the
\* file system: CancelledError is not an Exception, so neither `except
\* Exception` block (lines 277, 358) runs and the call is left at once. A
\* task cancelled while it awaits abort_multipart_upload has invoked it.
CancelUpload ==
    /\ up_pc \in {"put", "create", "part", "complete", "abort", "local"}
    /\ up_pc' = "cancelled"
    /\ s3_calls' = IF up_pc = "abort"
                   THEN Append(s3_calls, S3Call("abort_multipart_upload", 0, <<>>, <<>>))
                   ELSE s3_calls
    /\ UNCHANGED <<notUploadVars, timestamp, init_failed, s3_configured,
                   multipart_threshold, multipart_chunk_size, s3_available, s3_client,
                   content, part_num, parts, up_result>>

NextUpload ==
    \/ \E len \in 0..MaxLen, ts \in Timestamps : StartUpload(len, ts)
    \/ GetClientCached
    \/ GetClientOk
    \/ GetClientFail
    \/ \E ok \in BOOLEAN : PutObject(ok)
    \/ \E ok \in BOOLEAN : CreateMultipartUpload(ok)
    \/ \E ok \in BOOLEAN : UploadPart(ok)
    \/ \E ok \in BOOLEAN : CompleteMultipartUpload(ok)
    \/ \E ok \in BOOLEAN : AbortMultipartUpload(ok)
    \/ \E ok \in BOOLEAN : UploadToLocal(ok)
    \/ CancelUpload

InitUploadService == InitUpload /\ IdleIngest /\ IdleBuffer /\ IdleCache /\ IdlePair
    /\ IdleMerge /\ IdleMatch
    /\ IdleServices

SpecUpload == InitUploadService /\ [][NextUpload]_vars

(***************************************************************************)
(* SpecCache: RobotCache (services/cache.py) over its in-process map or    *)
(* over Redis, one operation after another. Time is counted in ticks of    *)
(* 1 / TicksPerSecond seconds, so that a ttl may be a fraction of a second.*)
(***************************************************************************)
Robots == {"r1", "r2"}
SessionIds == {1, 2}

\* One tick is half a second.
TicksPerSecond == 2

\* RobotCache.__init__ default_ttl, in ticks (1 second here).
DefaultTtl == 2

\* The ttl argument of update_robot_status, in ticks: 0 stands for None (and
\* for 0.0, which `ttl or self._default_ttl` treats alike), 5 is 2.5 seconds.
TtlArgs == {0, 5}

\* RobotStatus, and the value of a missing one.
RobotStatus(robot_id, sid, last_seen) ==
    [robot_id |-> robot_id, session_id |-> sid, last_seen |-> last_seen]
NoStatus == RobotStatus(None, 0, 0)

\* One key of the backend: InMemoryCache._cache[key] = (value, expire_time),
\* or a Redis key with its expiry.
Entry(value, expire_time) ==
    [present |-> TRUE, value |-> value, expire_time |-> expire_time]
NoEntry(empty) == [present |-> FALSE, value |-> empty, expire_time |-> 0]

\* int(x) of a number of seconds x given in ticks, in ticks.
IntSeconds(ticks) == (ticks \div TicksPerSecond) * TicksPerSecond

\* update_robot_status line 223 and InMemoryCache.set line 87: ttl or default.
TtlOrDefault(ttl) == IF ttl = 0 THEN DefaultTtl ELSE ttl

\* InMemoryCache.get, lines 77-83: the value returned (`empty` for None) ...
Live(e, t) == e.present /\ t < e.expire_time
GetValue(e, t, empty) == IF Live(e, t) THEN e.value ELSE empty
\* ... and the entry left in the map: an expired entry is deleted.
MemAfterGet(e, t, empty) == IF e.present /\ ~(t < e.expire_time) THEN NoEntry(empty) ELSE e

\* InMemoryCache.set, lines 87-90.
MemSet(value, ttl, t) == Entry(value, t + TtlOrDefault(ttl))

\* InMemoryCache.delete, lines 94-98: True whenever the key is in the map,
\* expired or not.
MemDelete(e) == e.present

\* Redis SET key value EX seconds / EXPIRE key seconds.
RedisSetEx(value, seconds, t) == Entry(value, t + seconds)
\* Redis DEL: the number of keys removed is 1 only for a key that has not expired.
RedisDel(e, t) == Live(e, t)

\* What one operation returned.
Ret(op, robot_id, sid, found, value, members, count, raised) ==
    [op |-> op, robot_id |-> robot_id, session_id |-> sid, at |-> now,
     found |-> found, value |-> value, members |-> members, count |-> count,
     raised |-> raised]

NoUpdate == [written |-> FALSE, at |-> 0, ttl |-> 0, value |-> NoStatus, removed |-> FALSE]

\* RobotCache.__init__ and initialize, lines 154-193: Redis is used when
\* REDIS_URL is set and the ping succeeds, the in-process map otherwise.
InitCache ==
    /\ now = 0
    /\ use_redis \in BOOLEAN
    /\ cache_status = [r \in Robots |-> NoEntry(NoStatus)]
    /\ cache_online = NoEntry({})
    /\ stats = [hits |-> 0, misses |-> 0, updates |-> 0, evictions |-> 0]
    /\ cache_ret = Ret("none", None, 0, FALSE, NoStatus, {}, 0, FALSE)
    /\ op_count = 0
    /\ call_counts = [get |-> 0, update |-> 0]
    /\ last_update = [r \in Robots |-> NoUpdate]

\* update_robot_status, lines 222-261.
update_robot_status(r, sid, ttl_arg) ==
    LET ttl == TtlOrDefault(ttl_arg)
        robot_status == RobotStatus(r, sid, now)
        online_set == GetValue(cache_online, now, {})
    IN
    /\ op_count < MaxOps
    /\ IF use_redis
       THEN /\ cache_status' = [cache_status EXCEPT
                                   ![r] = RedisSetEx(robot_status, IntSeconds(ttl), now)]
            /\ cache_online' = RedisSetEx(online_set \cup {r}, IntSeconds(ttl * 2), now)
       ELSE /\ cache_status' = [cache_status EXCEPT ![r] = MemSet(robot_status, ttl, now)]
            /\ cache_online' = MemSet(online_set \cup {r}, ttl * 2, now)
    /\ stats' = [stats EXCEPT !.updates = @ + 1]
    /\ call_counts' = [call_counts EXCEPT !.update = @ + 1]
    /\ last_update' = [last_update EXCEPT
                          ![r] = [written |-> TRUE, at |-> now, ttl |-> ttl,
                                  value |-> robot_status, removed |-> FALSE]]
    /\ cache_ret' = Ret("update", r, sid, FALSE, NoStatus, {}, 0, FALSE)
    /\ op_count' = op_count + 1
    /\ UNCHANGED <<notCacheVars, now, use_redis>>

\* Mutant of CountGet: only hits are counted.
CountHitsOnly(st, found) ==
    IF found THEN [st EXCEPT !.hits = @ + 1] ELSE st

\* get_robot_status, lines 286-296: the hit or the miss counter.
CountGet(st, found) ==
    IF found THEN [st EXCEPT !.hits = @ + 1] ELSE [st EXCEPT !.misses = @ + 1]

\* get_robot_status, lines 278-297.
get_robot_status(r) ==
    LET data == GetValue(cache_status[r], now, NoStatus)
    IN
    /\ op_count < MaxOps
    /\ cache_status' = IF use_redis THEN cache_status
                       ELSE [cache_status EXCEPT ![r] = MemAfterGet(@, now, NoStatus)]
    /\ stats' = CountGet(stats, data # NoStatus)
    /\ call_counts' = [call_counts EXCEPT !.get = @ + 1]
    /\ cache_ret' = Ret("get", r, 0, data # NoStatus, data, {}, 0, FALSE)
    /\ op_count' = op_count + 1
    /\ UNCHANGED <<notCacheVars, now, use_redis, cache_online, last_update>>

\* get_online_robots, lines 305-316.
get_online_robots ==
    /\ op_count < MaxOps
    /\ cache_online' = IF use_redis THEN cache_online
                       ELSE MemAfterGet(cache_online, now, {})
    /\ cache_ret' = Ret("list_online", None, 0, FALSE, NoStatus,
                        GetValue(cache_online, now, {}), 0, FALSE)
    /\ op_count' = op_count + 1
    /\ UNCHANGED <<notCacheVars, now, use_redis, cache_status, stats, call_counts,
                   last_update>>

\* remove_robot, lines 362-379, applied to the backend entries: the entries
\* afterwards and the value of `removed`.
RemoveStatus(status, r) == [status EXCEPT ![r] = NoEntry(NoStatus)]

RemoveOnline(online, r) ==
    IF use_redis
    THEN \* SREM; a set that becomes empty is deleted, the expiry is kept.
         IF ~Live(online, now) \/ r \notin online.value THEN online
         ELSE IF online.value = {r} THEN NoEntry({})
         ELSE [online EXCEPT !.value = @ \ {r}]
    ELSE \* lines 371-379: the list read is written back with 2 * default_ttl.
         IF Live(online, now)
         THEN MemSet(online.value \ {r}, DefaultTtl * 2, now)
         ELSE MemAfterGet(online, now, {})

Removed(status, r) ==
    IF use_redis THEN RedisDel(status[r], now) ELSE MemDelete(status[r])

\* remove_robot, lines 359-385.
remove_robot(r) ==
    /\ op_count < MaxOps
    /\ cache_status' = RemoveStatus(cache_status, r)
    /\ cache_online' = RemoveOnline(cache_online, r)
    /\ stats' = IF Removed(cache_status, r)
                THEN [stats EXCEPT !.evictions = @ + 1] ELSE stats
    /\ last_update' = [last_update EXCEPT ![r].removed = TRUE]
    /\ cache_ret' = Ret("remove", r, 0, Removed(cache_status, r), NoStatus, {}, 0, FALSE)
    /\ op_count' = op_count + 1
    /\ UNCHANGED <<notCacheVars, now, use_redis, call_counts>>

\* get_online_robot_statuses, lines 325-348, as invalidate_session uses it:
\* the robots of the online list whose record is returned with session sid.
Matching(sid) ==
    {r \in GetValue(cache_online, now, {}) :
        GetValue(cache_status[r], now, NoStatus).session_id = sid}

\* The entries after the mget of lines 330-335: the in-process map has
\* deleted the expired records of the listed robots.
StatusAfterMget ==
    IF use_redis THEN cache_status
    ELSE [r \in Robots |->
             IF r \in GetValue(cache_online, now, {})
             THEN MemAfterGet(cache_status[r], now, NoStatus) ELSE cache_status[r]]

RECURSIVE RemoveAllStatus(_, _)
RemoveAllStatus(status, rs) ==
    IF rs = {} THEN status
    ELSE LET r == CHOOSE r \in rs : TRUE
         IN  RemoveAllStatus(RemoveStatus(status, r), rs \ {r})

RECURSIVE RemoveAllOnline(_, _)
RemoveAllOnline(online, rs) ==
    IF rs = {} THEN online
    ELSE LET r == CHOOSE r \in rs : TRUE
         IN  RemoveAllOnline(RemoveOnline(online, r), rs \ {r})

\* invalidate_session, lines 396-408, with no other task running in between.
invalidate_session(sid) ==
    LET matching == Matching(sid)
    IN
    /\ op_count < MaxOps
    /\ cache_status' = RemoveAllStatus(StatusAfterMget, matching)
    /\ cache_online' = IF matching = {}
                       THEN IF use_redis THEN cache_online
                            ELSE MemAfterGet(cache_online, now, {})
                       ELSE RemoveAllOnline(cache_online, matching)
    /\ stats' = [stats EXCEPT !.evictions = @ + Cardinality(matching)]
    /\ last_update' = [r \in Robots |->
                          IF r \in matching
                          THEN [last_update[r] EXCEPT !.removed = TRUE]
                          ELSE last_update[r]]
    /\ cache_ret' = Ret("invalidate_session", None, sid, FALSE, NoStatus, {},
                        Cardinality(matching), FALSE)
    /\ op_count' = op_count + 1
    /\ UNCHANGED <<notCacheVars, now, use_redis, call_counts>>

CacheOps == {"update", "get", "list_online", "remove", "invalidate_session"}

\* The first Redis call of an operation raises (the server has become
\* unreachable): no operation of RobotCache catches it (lines 240-246, 281-282,
\* 307-309, 362-366), so the caller gets the exception and no counter changes.
RedisError(op) ==
    /\ op_count < MaxOps
    /\ use_redis
    /\ cache_ret' = Ret(op, None, 0, FALSE, NoStatus, {}, 0, TRUE)
    /\ op_count' = op_count + 1
    /\ UNCHANGED <<notCacheVars, now, use_redis, cache_status, cache_online, stats,
                   call_counts, last_update>>

\* time.time() advances.
Tick ==
    /\ now < MaxTime
    /\ now' = now + 1
    /\ UNCHANGED <<notCacheVars, use_redis, cache_status, cache_online, stats,
                   cache_ret, op_count, call_counts, last_update>>

NextCache ==
    \/ \E r \in Robots, sid \in SessionIds, ttl \in TtlArgs :
          update_robot_status(r, sid, ttl)
    \/ \E r \in Robots : get_robot_status(r)
    \/ get_online_robots
    \/ \E r \in Robots : remove_robot(r)
    \/ \E sid \in SessionIds : invalidate_session(sid)
    \/ \E op \in CacheOps : RedisError(op)
    \/ Tick

InitCacheService == InitCache /\ IdleIngest /\ IdleBuffer /\ IdleUpload /\ IdlePair
    /\ IdleMerge /\ IdleMatch
    /\ IdleServices

SpecCache == InitCacheService /\ [][NextCache]_vars

(***************************************************************************)
(* SpecCachePair: the operations of RobotCache (services/cache.py) as      *)
(* functions of the backend kind, the backend entries and the time, applied*)
(* to an in-process backend and to a Redis backend side by side.           *)
(***************************************************************************)
\* The entries of one backend.
Backend(status, online) == [status |-> status, online |-> online]

\* What a call returned: the record of get, the list of get_online_robots,
\* the records of get_online_robot_statuses, the flag of remove_robot, the
\* count of invalidate_session.
PairRet(op, value, members, statuses, removed, count) ==
    [op |-> op, value |-> value, members |-> members, statuses |-> statuses,
     removed |-> removed, count |-> count]
NoRet(op) == PairRet(op, NoStatus, {}, {}, FALSE, 0)

\* update_robot_status, lines 240-259.
UpdateBackend(redis, b, t, r, sid, ttl_arg) ==
    LET ttl == TtlOrDefault(ttl_arg)
        robot_status == RobotStatus(r, sid, t)
        online_set == GetValue(b.online, t, {})
    IN  IF redis
        THEN Backend([b.status EXCEPT ![r] = RedisSetEx(robot_status, IntSeconds(ttl), t)],
                     RedisSetEx(online_set \cup {r}, IntSeconds(ttl * 2), t))
        ELSE Backend([b.status EXCEPT ![r] = MemSet(robot_status, ttl, t)],
                     MemSet(online_set \cup {r}, ttl * 2, t))

\* get_robot_status, lines 281-284.
GetBackend(redis, b, t, r) ==
    IF redis THEN b
    ELSE Backend([b.status EXCEPT ![r] = MemAfterGet(@, t, NoStatus)], b.online)

\* get_online_robots, lines 307-316.
ListBackend(redis, b, t) ==
    IF redis THEN b ELSE Backend(b.status, MemAfterGet(b.online, t, {}))

\* get_online_robot_statuses, lines 325-348: the records returned ...
UnexpiredStatuses(b, t) ==
    {GetValue(b.status[r], t, NoStatus) : r \in Robots} \ {NoStatus}
OnlineStatuses(b, t) ==
    {GetValue(b.status[r], t, NoStatus) : r \in GetValue(b.online, t, {})} \ {NoStatus}
\* ... and the entries afterwards.
StatusesBackend(redis, b, t) ==
    IF redis THEN b
    ELSE Backend([r \in Robots |->
                     IF r \in GetValue(b.online, t, {})
                     THEN MemAfterGet(b.status[r], t, NoStatus) ELSE b.status[r]],
                 MemAfterGet(b.online, t, {}))

\* remove_robot, lines 362-379: the flag `removed` ...
RemovedFrom(redis, b, t, r) ==
    IF redis THEN RedisDel(b.status[r], t) ELSE MemDelete(b.status[r])
\* ... and the entries afterwards.
RemoveBackend(redis, b, t, r) ==
    Backend([b.status EXCEPT ![r] = NoEntry(NoStatus)],
            IF redis
            THEN IF ~Live(b.online, t) \/ r \notin b.online.value THEN b.online
                 ELSE IF b.online.value = {r} THEN NoEntry({})
                 ELSE [b.online EXCEPT !.value = @ \ {r}]
            ELSE IF Live(b.online, t)
                 THEN MemSet(b.online.value \ {r}, DefaultTtl * 2, t)
                 ELSE MemAfterGet(b.online, t, {}))

\* invalidate_session, lines 397-403: the robots whose record matches ...
MatchingIn(b, t, sid) ==
    {r \in GetValue(b.online, t, {}) : GetValue(b.status[r], t, NoStatus).session_id = sid}

RECURSIVE RemoveAllBackend(_, _, _, _)
RemoveAllBackend(redis, b, t, rs) ==
    IF rs = {} THEN b
    ELSE LET r == CHOOSE r \in rs : TRUE
         IN  RemoveAllBackend(redis, RemoveBackend(redis, b, t, r), t, rs \ {r})

\* ... and the entries afterwards.
InvalidateBackend(redis, b, t, sid) ==
    RemoveAllBackend(redis, StatusesBackend(redis, b, t), t, MatchingIn(b, t, sid))

InitPair ==
    /\ pair_now = 0
    /\ pair_mem = Backend([r \in Robots |-> NoEntry(NoStatus)], NoEntry({}))
    /\ pair_redis = Backend([r \in Robots |-> NoEntry(NoStatus)], NoEntry({}))
    /\ pair_ret = [mem |-> NoRet("none"), redis |-> NoRet("none")]
    /\ pair_ops = 0

PairUpdate(r, sid, ttl) ==
    /\ pair_ops < MaxOps
    /\ pair_mem' = UpdateBackend(FALSE, pair_mem, pair_now, r, sid, ttl)
    /\ pair_redis' = UpdateBackend(TRUE, pair_redis, pair_now, r, sid, ttl)
    /\ pair_ret' = [mem |-> NoRet("update"), redis |-> NoRet("update")]
    /\ pair_ops' = pair_ops + 1
    /\ UNCHANGED <<notPairVars, pair_now>>

PairGet(r) ==
    LET Get(b) == PairRet("get", GetValue(b.status[r], pair_now, NoStatus),
                          {}, {}, FALSE, 0)
    IN
    /\ pair_ops < MaxOps
    /\ pair_mem' = GetBackend(FALSE, pair_mem, pair_now, r)
    /\ pair_redis' = GetBackend(TRUE, pair_redis, pair_now, r)
    /\ pair_ret' = [mem |-> Get(pair_mem), redis |-> Get(pair_redis)]
    /\ pair_ops' = pair_ops + 1
    /\ UNCHANGED <<notPairVars, pair_now>>

PairListOnline ==
    LET List(b) == PairRet("list_online", NoStatus, GetValue(b.online, pair_now, {}),
                           {}, FALSE, 0)
    IN
    /\ pair_ops < MaxOps
    /\ pair_mem' = ListBackend(FALSE, pair_mem, pair_now)
    /\ pair_redis' = ListBackend(TRUE, pair_redis, pair_now)
    /\ pair_ret' = [mem |-> List(pair_mem), redis |-> List(pair_redis)]
    /\ pair_ops' = pair_ops + 1
    /\ UNCHANGED <<notPairVars, pair_now>>

PairListOnlineStatuses ==
    LET Statuses(b) == PairRet("list_online_statuses", NoStatus, {},
                               OnlineStatuses(b, pair_now), FALSE, 0)
    IN
    /\ pair_ops < MaxOps
    /\ pair_mem' = StatusesBackend(FALSE, pair_mem, pair_now)
    /\ pair_redis' = StatusesBackend(TRUE, pair_redis, pair_now)
    /\ pair_ret' = [mem |-> Statuses(pair_mem), redis |-> Statuses(pair_redis)]
    /\ pair_ops' = pair_ops + 1
    /\ UNCHANGED <<notPairVars, pair_now>>

PairRemove(r) ==
    /\ pair_ops < MaxOps
    /\ pair_mem' = RemoveBackend(FALSE, pair_mem, pair_now, r)
    /\ pair_redis' = RemoveBackend(TRUE, pair_redis, pair_now, r)
    /\ pair_ret' =
          [mem |-> PairRet("remove", NoStatus, {}, {},
                           RemovedFrom(FALSE, pair_mem, pair_now, r), 0),
           redis |-> PairRet("remove", NoStatus, {}, {},
                             RemovedFrom(TRUE, pair_redis, pair_now, r), 0)]
    /\ pair_ops' = pair_ops + 1
    /\ UNCHANGED <<notPairVars, pair_now>>

PairInvalidateSession(sid) ==
    LET Count(b) == PairRet("invalidate_session", NoStatus, {}, {}, FALSE,
                            Cardinality(MatchingIn(b, pair_now, sid)))
    IN
    /\ pair_ops < MaxOps
    /\ pair_mem' = InvalidateBackend(FALSE, pair_mem, pair_now, sid)
    /\ pair_redis' = InvalidateBackend(TRUE, pair_redis, pair_now, sid)
    /\ pair_ret' = [mem |-> Count(pair_mem), redis |-> Count(pair_redis)]
    /\ pair_ops' = pair_ops + 1
    /\ UNCHANGED <<notPairVars, pair_now>>

PairTick ==
    /\ pair_now < MaxTime
    /\ pair_now' = pair_now + 1
    /\ UNCHANGED <<notPairVars, pair_mem, pair_redis, pair_ret, pair_ops>>

NextPair ==
    \/ \E r \in Robots, sid \in SessionIds, ttl \in TtlArgs : PairUpdate(r, sid, ttl)
    \/ \E r \in Robots : PairGet(r)
    \/ PairListOnline
    \/ PairListOnlineStatuses
    \/ \E r \in Robots : PairRemove(r)
    \/ \E sid \in SessionIds : PairInvalidateSession(sid)
    \/ PairTick

InitCachePair == InitPair /\ IdleIngest /\ IdleBuffer /\ IdleUpload /\ IdleCache
    /\ IdleMerge /\ IdleMatch
    /\ IdleServices

SpecCachePair == InitCachePair /\ [][NextPair]_vars

(***************************************************************************)
(* DataMerger (scripts/merge_dataset.py), specification SpecMerge.         *)
(*                                                                         *)
(* One merge() call over the rows of one session.  The id of a VideoChunk  *)
(* is its position in db_chunks and stands for its file_path.  The         *)
(* MergeConfig has camera_keys = None, so every chunk of the session is    *)
(* used.  An image is written as the file it came from and the index of    *)
(* the video frame that was decoded.                                       *)
(***************************************************************************)
MaxMergeFrames == 2

Cameras == {"cam1", "cam2"}
FrameTimes == 0 .. 3
ChunkStarts == {0, 1}
VideoFpsValues == {1, 2}
VideoFrameCounts == {1, 2}
\* index of the video frame cap.read() fails on, in every file; -1 = none
BadFrames == {-1, 0, 1}

\* datetime.fromtimestamp and datetime.timestamp of a naive datetime both go
\* through the local time zone of the backend.
UtcOffset == TicksPerSecond
FromTimestamp(t) == t + UtcOffset
ToTimestamp(dt) == dt - UtcOffset

TeleopFrame(frame_index, t) ==
    [frame_index |-> frame_index, timestamp |-> FromTimestamp(t)]

VideoChunk(camera_key, start_timestamp) ==
    [camera_key |-> camera_key, start_timestamp |-> start_timestamp]

\* select(TeleopFrame).order_by(frame_index)
FrameLists ==
    { [i \in 1 .. n |-> TeleopFrame(i - 1, ts[i])] :
        n \in 0 .. MaxMergeFrames, ts \in [1 .. MaxMergeFrames -> FrameTimes] }

\* select(VideoChunk).order_by(start_timestamp)
ChunkLists ==
    { cs \in UNION { [1 .. n -> [camera_key : Cameras, start_timestamp : ChunkStarts]] :
                        n \in 0 .. 2 } :
        \A i \in 1 .. Len(cs) - 1 :
            cs[i].start_timestamp <= cs[i + 1].start_timestamp }

MergeResult(success, total, matched, skipped, cameras, error) ==
    [success |-> success, total_frames |-> total, matched_frames |-> matched,
     skipped_frames |-> skipped, cameras |-> cameras, error |-> error]

NoMergeResult == MergeResult(FALSE, -1, -1, -1, {}, "pending")
MergeFailure(error) == MergeResult(FALSE, 0, 0, 0, {}, error)

NoDataset == [created |-> FALSE, features |-> {}, use_videos |-> FALSE, frames |-> <<>>]

InitMerge ==
    /\ db_session \in BOOLEAN
    /\ db_frames \in FrameLists
    /\ db_chunks \in ChunkLists
    /\ video_fps \in VideoFpsValues
    /\ video_total_frames \in VideoFrameCounts
    /\ mg_pc = "start"
    /\ chunk_pos = 0
    /\ extractors = [c \in Cameras |-> 0]
    /\ downloads = <<>>
    /\ merged = <<>>
    /\ dataset = NoDataset
    /\ mg_result = NoMergeResult

\* merge(): session_info = await self._get_session_info(session_id)
GetSessionInfo ==
    /\ mg_pc = "start"
    /\ IF ~db_session
       THEN /\ mg_result' = MergeFailure("session not found")
            /\ mg_pc' = "close"
       ELSE /\ mg_pc' = "frames"
            /\ UNCHANGED mg_result
    /\ UNCHANGED <<db_session, db_frames, db_chunks, video_fps, video_total_frames,
                   chunk_pos, extractors, downloads, merged, dataset>>
    /\ UNCHANGED notMergeVars

\* merge(): frames = await self._get_frames(session_id)
NoFramesIgnored(frames) == FALSE
\* merge(): if not frames
NoFrames(frames) == frames = <<>>

GetFrames ==
    /\ mg_pc = "frames"
    /\ IF NoFrames(db_frames)
       THEN /\ mg_result' = MergeFailure("no frames")
            /\ mg_pc' = "close"
       ELSE /\ mg_pc' = "chunks"
            /\ UNCHANGED mg_result
    /\ UNCHANGED <<db_session, db_frames, db_chunks, video_fps, video_total_frames,
                   chunk_pos, extractors, downloads, merged, dataset>>
    /\ UNCHANGED notMergeVars

\* merge(): video_chunks = await self._get_video_chunks(session_id)
GetVideoChunks ==
    /\ mg_pc = "chunks"
    /\ mg_pc' = "prepare"
    /\ chunk_pos' = 1
    /\ UNCHANGED <<db_session, db_frames, db_chunks, video_fps, video_total_frames,
                   extractors, downloads, merged, dataset, mg_result>>
    /\ UNCHANGED notMergeVars

\* One turn of the loop of _prepare_extractors.  The outcome is that of
\* VideoDownloader.download followed by FrameExtractor(local_path).
PrepareOutcomes == {"ok", "download_raises", "open_raises"}

PrepareExtractor(outcome) ==
    /\ mg_pc = "prepare"
    /\ chunk_pos <= Len(db_chunks)
    /\ LET chunk == db_chunks[chunk_pos]
       IN  IF extractors[chunk.camera_key] # 0
           THEN UNCHANGED <<extractors, downloads>>
           ELSE /\ downloads' = Append(downloads, chunk_pos)
                /\ extractors' =
                       IF outcome = "ok"
                       THEN [extractors EXCEPT ![chunk.camera_key] = chunk_pos]
                       ELSE extractors
    /\ chunk_pos' = chunk_pos + 1
    /\ UNCHANGED <<db_session, db_frames, db_chunks, video_fps, video_total_frames,
                   mg_pc, merged, dataset, mg_result>>
    /\ UNCHANGED notMergeVars

\* FrameExtractor.extract_at_timestamp: the index of the decoded video frame,
\* or -1 for None.  relative_time > self._duration, with
\* _duration = total_frames / fps, is compared without the division.
ExtractAtTimestamp(target_timestamp, video_start_timestamp, fps, total_frames, bad) ==
    LET relative_time == target_timestamp - video_start_timestamp
        frame_idx == (relative_time * fps) \div TicksPerSecond
    IN  IF relative_time < 0 \/ relative_time * fps > total_frames * TicksPerSecond
        THEN -1
        ELSE IF frame_idx >= total_frames
        THEN -1
        ELSE IF frame_idx = bad
        THEN -1
        ELSE frame_idx

\* _merge_frames: camera_start_times = {chunk.camera_key: chunk.start_timestamp
\* for chunk in video_chunks}; a later chunk of a camera overwrites an earlier.
CameraStartTime(chunks, camera_key) ==
    LET mine == { i \in 1 .. Len(chunks) : chunks[i].camera_key = camera_key }
    IN  IF mine = {}
        THEN 0
        ELSE chunks[CHOOSE i \in mine : \A j \in mine : j <= i].start_timestamp

PreparedCameras == { c \in Cameras : extractors[c] # 0 }

FrameImages(frame, bad) ==
    LET image(c) == ExtractAtTimestamp(ToTimestamp(frame.timestamp),
                                       CameraStartTime(db_chunks, c),
                                       video_fps, video_total_frames, bad)
    IN  { [camera_key |-> c, file |-> extractors[c], frame_idx |-> image(c)] :
            c \in { k \in PreparedCameras : image(k) # -1 } }

MergedFrameData(frame, bad) ==
    [frame_index |-> frame.frame_index,
     timestamp |-> ToTimestamp(frame.timestamp),
     images |-> FrameImages(frame, bad)]

\* merge(): merged_data = self._merge_frames(frames, video_chunks, extractors)
MergeFrames(bad) ==
    /\ mg_pc = "prepare"
    /\ chunk_pos > Len(db_chunks)
    /\ merged' = [i \in 1 .. Len(db_frames) |-> MergedFrameData(db_frames[i], bad)]
    /\ mg_pc' = "export"
    /\ UNCHANGED <<db_session, db_frames, db_chunks, video_fps, video_total_frames,
                   chunk_pos, extractors, downloads, dataset, mg_result>>
    /\ UNCHANGED notMergeVars

MatchedAll(data) == Len(data)
\* merge(): matched = sum(1 for f in merged_data if f.images)
Matched(data) == Cardinality({ i \in 1 .. Len(data) : data[i].images # {} })

\* merge(): skipped = len(merged_data) - matched
Skipped(data) == Len(data) - Matched(data)

\* _export_to_lerobot: one image feature per key of camera_extractors.
Features(camera_keys) == camera_keys

\* the frame_dict given to dataset.add_frame
FrameDict(frame, camera_keys) ==
    [frame_index |-> frame.frame_index,
     images |-> { im.camera_key : im \in { x \in frame.images : x.camera_key \in camera_keys } }]

\* LeRobotDataset is a library outside this repository: create and add_frame
\* either succeed or raise.
ExportOutcomes == {"ok", "create_raises", "add_frame_raises"}

ExportToLerobot(outcome) ==
    /\ mg_pc = "export"
    /\ LET camera_keys == PreparedCameras
           created == [created |-> TRUE,
                       features |-> Features(camera_keys),
                       use_videos |-> camera_keys # {},
                       frames |-> <<>>]
       IN  /\ dataset' =
                  CASE outcome = "create_raises" -> dataset
                    [] outcome = "add_frame_raises" -> created
                    [] OTHER ->
                         [created EXCEPT !.frames =
                             [i \in 1 .. Len(merged) |-> FrameDict(merged[i], camera_keys)]]
           /\ mg_result' =
                  IF outcome = "ok"
                  THEN MergeResult(TRUE, Len(db_frames), Matched(merged),
                                   Skipped(merged), camera_keys, "None")
                  ELSE MergeFailure("export raised")
    /\ mg_pc' = "close"
    /\ UNCHANGED <<db_session, db_frames, db_chunks, video_fps, video_total_frames,
                   chunk_pos, extractors, downloads, merged>>
    /\ UNCHANGED notMergeVars

\* merge(): except Exception around the database reads
QueryRaises ==
    /\ mg_pc \in {"start", "frames", "chunks"}
    /\ mg_result' = MergeFailure("query raised")
    /\ mg_pc' = "close"
    /\ UNCHANGED <<db_session, db_frames, db_chunks, video_fps, video_total_frames,
                   chunk_pos, extractors, downloads, merged, dataset>>
    /\ UNCHANGED notMergeVars

\* merge(): finally: self._downloader.close(); return
CloseAndReturn ==
    /\ mg_pc = "close"
    /\ mg_pc' = "done"
    /\ UNCHANGED <<db_session, db_frames, db_chunks, video_fps, video_total_frames,
                   chunk_pos, extractors, downloads, merged, dataset, mg_result>>
    /\ UNCHANGED notMergeVars

NextMerge ==
    \/ GetSessionInfo
    \/ GetFrames
    \/ GetVideoChunks
    \/ \E outcome \in PrepareOutcomes : PrepareExtractor(outcome)
    \/ \E bad \in BadFrames : MergeFrames(bad)
    \/ \E outcome \in ExportOutcomes : ExportToLerobot(outcome)
    \/ QueryRaises
    \/ CloseAndReturn

InitDataMerger == InitMerge /\ IdleIngest /\ IdleBuffer /\ IdleUpload /\ IdleCache
    /\ IdlePair /\ IdleMatch
    /\ IdleServices

SpecMerge == InitDataMerger /\ [][NextMerge]_vars

(***************************************************************************)
(* TimestampMatcher (scripts/merge_dataset.py), specification SpecMatcher. *)
(*                                                                         *)
(* Timestamps are in ticks of 1 / TicksPerSecond seconds, differences in   *)
(* milliseconds.  Indexes are those of the Python list (from 0).  The      *)
(* tolerance max_diff_ms is not negative.                                  *)
(***************************************************************************)
MaxTimestamps == 3

MatchTimes == 0 .. 4
MaxDiffs == {0, 50, 500, 1000}
MsPerTick == 1000 \div TicksPerSecond

\* frame_timestamps: ascending, duplicates allowed
SortedLists ==
    { ts \in UNION { [1 .. n -> MatchTimes] : n \in 0 .. MaxTimestamps } :
        \A i \in 1 .. Len(ts) - 1 : ts[i] <= ts[i + 1] }

Abs(x) == IF x < 0 THEN 0 - x ELSE x

MatchNone == [found |-> FALSE, index |-> -1, diff_ms |-> -1]
Match(index, diff_ms) == [found |-> TRUE, index |-> index, diff_ms |-> diff_ms]
NotCalled == [found |-> FALSE, index |-> -2, diff_ms |-> -2]

TooFarOrEqual(diff_ms, max_diff_ms) == diff_ms >= max_diff_ms
\* find_closest_frame: if diff_ms > self._max_diff_ms
TooFar(diff_ms, max_diff_ms) == diff_ms > max_diff_ms

\* find_closest_frame: the while loop, from the state (left, right,
\* closest_idx, min_diff) to the return statement it ends in.
RECURSIVE BinarySearch(_, _, _, _, _, _, _)
BinarySearch(ts, target, max_diff_ms, left, right, closest_idx, min_diff) ==
    IF left <= right
    THEN LET mid == (left + right) \div 2
             diff == Abs(ts[mid + 1] - target)
             closer == diff < min_diff
             min_diff2 == IF closer THEN diff ELSE min_diff
             closest_idx2 == IF closer THEN mid ELSE closest_idx
         IN  IF ts[mid + 1] < target
             THEN BinarySearch(ts, target, max_diff_ms, mid + 1, right,
                               closest_idx2, min_diff2)
             ELSE IF ts[mid + 1] > target
             THEN BinarySearch(ts, target, max_diff_ms, left, mid - 1,
                               closest_idx2, min_diff2)
             ELSE Match(mid, 0)
    ELSE LET diff_ms == min_diff * MsPerTick
         IN  IF TooFar(diff_ms, max_diff_ms)
             THEN MatchNone
             ELSE Match(closest_idx, diff_ms)

find_closest_frame(max_diff_ms, target_timestamp, frame_timestamps) ==
    IF frame_timestamps = <<>>
    THEN MatchNone
    ELSE BinarySearch(frame_timestamps, target_timestamp, max_diff_ms,
                      0, Len(frame_timestamps) - 1,
                      0, Abs(frame_timestamps[1] - target_timestamp))

InitMatch ==
    /\ m_max_diff_ms \in MaxDiffs
    /\ m_timestamps = <<>>
    /\ m_target = 0
    /\ m_ret = NotCalled

FindClosestFrame(target_timestamp, frame_timestamps) ==
    /\ m_target' = target_timestamp
    /\ m_timestamps' = frame_timestamps
    /\ m_ret' = find_closest_frame(m_max_diff_ms, target_timestamp, frame_timestamps)
    /\ UNCHANGED m_max_diff_ms
    /\ UNCHANGED notMatchVars

NextMatch ==
    \E target_timestamp \in MatchTimes, frame_timestamps \in SortedLists :
        FindClosestFrame(target_timestamp, frame_timestamps)

InitMatcher == InitMatch /\ IdleIngest /\ IdleBuffer /\ IdleUpload /\ IdleCache
    /\ IdlePair /\ IdleMerge
    /\ IdleServices

SpecMatcher == InitMatcher /\ [][NextMatch]_vars

(***************************************************************************)
(* SpecRegistry: one ConnectionManager (services/connection.py) whose      *)
(* connect, disconnect and broadcast are called by several tasks of one    *)
(* event loop.  accept() and send_text() are awaits: other calls run       *)
(* between them.                                                           *)
(***************************************************************************)
InList(list, h) == \E i \in 1..Len(list) : list[i] = h

\* list.remove(h) with the mistake of dropping the last element instead.
RemoveLast(list, h) == SubSeq(list, 1, Len(list) - 1)
\* disconnect, lines 41-42: list.remove(websocket) drops the first element
\* equal to it; a handle equals only itself.
ListRemove(list, h) == RemoveFirst(list, h)

\* __init__, lines 23-24.
InitRegistry ==
    /\ cm_connections = <<>>
    /\ ws_state = [h \in Handles |-> "CONNECTING"]
    /\ cn_pc = [h \in Handles |-> "idle"]
    /\ bc_pc = "idle"
    /\ bc_index = 0
    /\ bc_attempted = <<>>
    /\ bc_snapshot = <<>>
    /\ cm_expected = {}

\* connect, line 32: await websocket.accept().  It succeeds once per handle;
\* on a handle that has left the CONNECTING state, or whose peer has gone,
\* it raises and connect registers nothing.
ConnectAccept(h, ok) ==
    /\ cn_pc[h] \in {"idle", "returned", "raised"}
    /\ IF ws_state[h] = "CONNECTING" /\ ok
       THEN /\ ws_state' = [ws_state EXCEPT ![h] = "CONNECTED"]
            /\ cn_pc' = [cn_pc EXCEPT ![h] = "accepted"]
       ELSE /\ cn_pc' = [cn_pc EXCEPT ![h] = "raised"]
            /\ UNCHANGED ws_state
    /\ UNCHANGED <<cm_connections, bc_pc, bc_index, bc_attempted, bc_snapshot,
                   cm_expected>>
    /\ UNCHANGED notRegVars

\* connect, line 33: append and return.
ConnectAppend(h) ==
    /\ cn_pc[h] = "accepted"
    /\ cm_connections' = Append(cm_connections, h)
    /\ cn_pc' = [cn_pc EXCEPT ![h] = "returned"]
    /\ cm_expected' = cm_expected \cup {h}
    /\ UNCHANGED <<ws_state, bc_pc, bc_index, bc_attempted, bc_snapshot>>
    /\ UNCHANGED notRegVars

\* disconnect, lines 35-42: no await, so the whole call is one step.
Disconnect(h) ==
    /\ cm_connections' = IF InList(cm_connections, h)
                         THEN ListRemove(cm_connections, h)
                         ELSE cm_connections
    /\ cm_expected' = cm_expected \ {h}
    /\ UNCHANGED <<ws_state, cn_pc, bc_pc, bc_index, bc_attempted, bc_snapshot>>
    /\ UNCHANGED notRegVars

\* broadcast, line 50: the for statement takes an iterator of the list
\* itself, not of a copy.
BroadcastCall ==
    /\ bc_pc \in {"idle", "returned", "raised"}
    /\ bc_pc' = "sending"
    /\ bc_index' = 1
    /\ bc_attempted' = <<>>
    /\ bc_snapshot' = cm_connections
    /\ UNCHANGED <<cm_connections, ws_state, cn_pc, cm_expected>>
    /\ UNCHANGED notRegVars

\* broadcast, lines 50-51: await connection.send_text(message) on the next
\* element; there is no try statement, so an exception of send_text leaves
\* the loop and the function.
BroadcastSend(ok) ==
    /\ bc_pc = "sending"
    /\ bc_index <= Len(cm_connections)
    /\ bc_attempted' = Append(bc_attempted, cm_connections[bc_index])
    /\ IF ok
       THEN /\ bc_index' = bc_index + 1
            /\ UNCHANGED bc_pc
       ELSE /\ bc_pc' = "raised"
            /\ UNCHANGED bc_index
    /\ UNCHANGED <<cm_connections, ws_state, cn_pc, bc_snapshot, cm_expected>>
    /\ UNCHANGED notRegVars

\* broadcast, line 50: the iterator is exhausted.
BroadcastReturn ==
    /\ bc_pc = "sending"
    /\ bc_index > Len(cm_connections)
    /\ bc_pc' = "returned"
    /\ UNCHANGED <<cm_connections, ws_state, cn_pc, bc_index, bc_attempted,
                   bc_snapshot, cm_expected>>
    /\ UNCHANGED notRegVars

\* connection_count, lines 53-56.
cm_connection_count == Len(cm_connections)

NextRegistry ==
    \/ \E h \in Handles, ok \in BOOLEAN : ConnectAccept(h, ok)
    \/ \E h \in Handles : ConnectAppend(h)
    \/ \E h \in Handles : Disconnect(h)
    \/ BroadcastCall
    \/ \E ok \in BOOLEAN : BroadcastSend(ok)
    \/ BroadcastReturn

InitConnectionManager == InitRegistry /\ IdleModel /\ IdleManager /\ IdleRace
    /\ IdleEndpoint

SpecRegistry == InitConnectionManager /\ [][NextRegistry]_vars

(***************************************************************************)
(* SpecManager: one TelemetryManager (services/telemetry.py, 240-279)      *)
(* whose get_or_create_buffer and remove_buffer are called by the tasks of *)
(* one event loop.  The body under self._lock holds no await, so a task    *)
(* never finds the lock held: acquire returns at once and each call runs   *)
(* from its first line to its return as one step; concurrent calls are the *)
(* orders in which these steps are taken.                                  *)
(***************************************************************************)
\* robot_id strings, as sequences of characters; one holds the separator.
ManagerRobotIds == {<<"a">>, <<"a", "1">>, <<"a", ":", "1">>}
ManagerSessionIds == {1, 11}

Digit(d) == <<"0", "1", "2", "3", "4", "5", "6", "7", "8", "9">>[d + 1]
\* str(n) of a natural number.
RECURSIVE Str(_)
Str(n) == IF n < 10 THEN <<Digit(n)>> ELSE Str(n \div 10) \o <<Digit(n % 10)>>

\* A key built without the separator.
ManagerKeyJoined(robot_id, sid) == robot_id \o Str(sid)
\* get_or_create_buffer line 257 and remove_buffer line 267:
\* key = f"{robot_id}:{session_id}".
ManagerKey(robot_id, sid) == robot_id \o <<":">> \o Str(sid)

\* TelemetryBuffer(session_id=..., robot_id=...), lines 259-262; id tells
\* one constructed object from another.
NewBuffer(id, sid, robot_id) == [id |-> id, session_id |-> sid, robot_id |-> robot_id]
NoBuffer == [id |-> 0, session_id |-> 0, robot_id |-> <<>>]

LogEntry(op, robot_id, sid, ret) ==
    [op |-> op, robot_id |-> robot_id, session_id |-> sid, ret |-> ret]

\* __init__, lines 246-248.
InitManager ==
    /\ tm_buffers = <<>>
    /\ tm_created = 0
    /\ tm_log = <<>>

\* get_or_create_buffer, lines 250-263.
GetOrCreateBuffer(sid, robot_id) ==
    LET key == ManagerKey(robot_id, sid) IN
    /\ Len(tm_log) < MaxCalls
    /\ IF key \notin DOMAIN tm_buffers
       THEN /\ tm_created' = tm_created + 1
            /\ tm_buffers' = [k \in DOMAIN tm_buffers \cup {key} |->
                                IF k = key
                                THEN NewBuffer(tm_created + 1, sid, robot_id)
                                ELSE tm_buffers[k]]
       ELSE UNCHANGED <<tm_buffers, tm_created>>
    /\ tm_log' = Append(tm_log, LogEntry("get_or_create_buffer", robot_id, sid,
                                         tm_buffers'[key]))
    /\ UNCHANGED notManagerVars

\* remove_buffer, lines 265-270.
RemoveBuffer(sid, robot_id) ==
    LET key == ManagerKey(robot_id, sid) IN
    /\ Len(tm_log) < MaxCalls
    /\ tm_buffers' = IF key \in DOMAIN tm_buffers
                     THEN [k \in DOMAIN tm_buffers \ {key} |-> tm_buffers[k]]
                     ELSE tm_buffers
    /\ tm_log' = Append(tm_log, LogEntry("remove_buffer", robot_id, sid, NoBuffer))
    /\ UNCHANGED tm_created
    /\ UNCHANGED notManagerVars

NextManager ==
    \/ \E sid \in ManagerSessionIds, robot_id \in ManagerRobotIds : GetOrCreateBuffer(sid, robot_id)
    \/ \E sid \in ManagerSessionIds, robot_id \in ManagerRobotIds : RemoveBuffer(sid, robot_id)

InitTelemetryManager == InitManager /\ IdleModel /\ IdleRegistry /\ IdleRace
    /\ IdleEndpoint

SpecManager == InitTelemetryManager /\ [][NextManager]_vars

(***************************************************************************)
(* SpecRace: two tasks of one event loop call update_robot_status or       *)
(* remove_robot on one RobotCache (services/cache.py) whose Redis cannot   *)
(* be reached, so that the in-process map is the backend.  A task runs     *)
(* until it suspends: at the ping of initialize, and at the acquire of a   *)
(* lock that is held.  time.time() is taken as constant over the two       *)
(* calls: no entry expires between them.                                   *)
(***************************************************************************)
RaceTasks == {1, 2}
RaceRobots == {"r1", "r2", "r3"}
\* task 1 calls with r1, task 2 with another robot
RaceCalls ==
    [op : {"update", "remove"}, robot : RaceRobots]

\* InMemoryCache.__init__, lines 69-72: an empty map.
NoOnline == [present |-> FALSE, value |-> {}]
EmptyMemory == [status |-> {}, online |-> NoOnline]
NoMemory == [status |-> {"None"}, online |-> NoOnline]
MemoryStates ==
    [status : SUBSET RaceRobots,
     online : {NoOnline} \cup [present : {TRUE}, value : SUBSET RaceRobots]]

\* asyncio.Lock.acquire under `async with self._lock` (lines 76, 89, 94):
\* the caller suspends only when the lock is held.
AcquireSuspends(locked) == locked

\* One task's state machine: the lines a task runs from position pc to its
\* next await, on the state st = [initialized, memory, pc, local].
\*   start          _ensure_initialized, lines 195-198, and initialize up to
\*                  the ping, lines 163-176
\*   ping           initialize after the failed ping, lines 183-193
\*   status         set(status_key) line 248, or delete(status_key) line 368
\*   get_online     get(ONLINE_ROBOTS_KEY), lines 250 and 370
\*   set_online     set(ONLINE_ROBOTS_KEY), lines 253-259 and 371-379
FirstOp == "status"
Exec(st, t, call, redis_url) ==
    CASE st.pc[t] = "start" ->
            IF st.initialized
            THEN [st EXCEPT !.pc[t] = FirstOp]
            ELSE IF redis_url
                 THEN [st EXCEPT !.pc[t] = "ping"]
                 ELSE [st EXCEPT !.memory = EmptyMemory, !.initialized = TRUE,
                                 !.pc[t] = FirstOp]
      [] st.pc[t] = "ping" ->
            [st EXCEPT !.memory = EmptyMemory, !.initialized = TRUE,
                       !.pc[t] = FirstOp]
      [] st.pc[t] = "status" ->
            [st EXCEPT !.memory.status =
                           IF call.op = "update" THEN @ \cup {call.robot}
                                                 ELSE @ \ {call.robot},
                       !.pc[t] = "get_online"]
      [] st.pc[t] = "get_online" ->
            IF call.op = "remove" /\ ~st.memory.online.present
            THEN [st EXCEPT !.pc[t] = "done"]
            ELSE [st EXCEPT !.local[t] = st.memory.online.value,
                            !.pc[t] = "set_online"]
      [] st.pc[t] = "set_online" ->
            [st EXCEPT !.memory.online =
                           [present |-> TRUE,
                            value |-> IF call.op = "update"
                                      THEN st.local[t] \cup {call.robot}
                                      ELSE st.local[t] \ {call.robot}],
                       !.pc[t] = "done"]

\* The lock of the InMemoryCache is released before any await: a task at an
\* acquire finds it free.
LockHeld == FALSE

Suspended(st, t) ==
    \/ st.pc[t] = "ping"
    \/ st.pc[t] \in {"status", "get_online", "set_online"} /\ AcquireSuspends(LockHeld)

RECURSIVE RunTask(_, _, _, _)
RunTask(st, t, call, redis_url) ==
    LET st1 == Exec(st, t, call, redis_url) IN
    IF st1.pc[t] = "done" \/ Suspended(st1, t)
    THEN st1
    ELSE RunTask(st1, t, call, redis_url)

\* A fresh RobotCache (lines 141-161) or one that served calls before; the
\* two calls are for different robots.
InitRace ==
    /\ rc_redis_url \in BOOLEAN
    /\ rc_initialized \in BOOLEAN
    /\ rc_memory \in IF rc_initialized THEN MemoryStates ELSE {NoMemory}
    /\ rc_call \in {c \in [RaceTasks -> RaceCalls] : c[1].robot # c[2].robot}
    /\ rc_pc = [t \in RaceTasks |-> "start"]
    /\ rc_local = [t \in RaceTasks |-> {}]
    /\ rc_before = rc_memory.online.value

\* The event loop runs task t up to its next suspension or its return.
Run(t) ==
    /\ rc_pc[t] # "done"
    /\ LET st == RunTask([initialized |-> rc_initialized, memory |-> rc_memory,
                          pc |-> rc_pc, local |-> rc_local],
                         t, rc_call[t], rc_redis_url)
       IN /\ rc_initialized' = st.initialized
          /\ rc_memory' = st.memory
          /\ rc_pc' = st.pc
          /\ rc_local' = st.local
    /\ UNCHANGED <<rc_redis_url, rc_call, rc_before>>
    /\ UNCHANGED notRaceVars

NextRace == \E t \in RaceTasks : Run(t)

InitRobotCacheRace == InitRace /\ IdleModel /\ IdleRegistry /\ IdleManager
    /\ IdleEndpoint

SpecRace == InitRobotCacheRace /\ [][NextRace]_vars

(***************************************************************************)
(* SpecEndpoint: one request handled by upload_video                       *)
(* (api/routes/upload.py, 138-244) with _validate_video_file (27-54) and   *)
(* _verify_session (57-81).  The object store adapter and the database are *)
(* the environment: each of their calls returns or raises.                 *)
(***************************************************************************)
\* settings.VIDEO_ALLOWED_EXTENSIONS, core/config.py line 55.
VIDEO_ALLOWED_EXTENSIONS == {"mp4", "avi", "mov", "webm"}

\* file names as the parts between their dots: "clip.mp4" is <<"clip", "mp4">>,
\* "mp4" has no dot, "clip." ends in one, "" is the empty name.
Filenames ==
    {<<"clip", "mp4">>, <<"clip", "MP4">>, <<"clip", "mp4", "exe">>,
     <<"a", "b", "webm">>, <<"mp4">>, <<"clip", "">>, <<"">>}

\* str.lower() on the parts used.
Lower(part) == IF part = "MP4" THEN "mp4" ELSE part

\* _validate_video_file line 42:
\* filename.rsplit(".", 1)[-1].lower() if "." in filename else "".
Extension(filename) ==
    IF Len(filename) >= 2 THEN Lower(filename[Len(filename)]) ELSE ""

SizeGiven(n) == [given |-> TRUE, size |-> n]
SizeNone == [given |-> FALSE, size |-> 0]

\* _validate_video_file, lines 27-54: the status it raises, 0 when it returns.
validate_video_file(filename, content_length, max_size) ==
    IF filename = <<"">> THEN 400
    ELSE IF Extension(filename) \notin VIDEO_ALLOWED_EXTENSIONS THEN 400
    ELSE IF content_length.given /\ content_length.size # 0
            /\ content_length.size > max_size THEN 413
    ELSE 0

\* UploadResult, services/storage.py lines 55-63.
EndpointResult(success, path) == [success |-> success, path |-> path]
NoEndpointResult == [success |-> FALSE, path |-> "None"]
StoredPaths == {"s3://bucket/key", "/videos/key"}

InitEndpoint ==
    /\ video_max_size \in 1..2
    /\ ep_filename \in Filenames
    /\ ep_size \in {SizeNone} \cup {SizeGiven(n) : n \in 0..MaxLen}
    /\ ep_length \in 0..MaxLen
    /\ ep_session \in BOOLEAN
    /\ ep_pc = "validate"
    /\ ep_status = 0
    /\ ep_result = NoEndpointResult
    /\ ep_calls = 0
    /\ ep_rows = <<>>

Respond(status) ==
    /\ ep_pc' = "responded"
    /\ ep_status' = status

\* upload_video line 168.
Validate ==
    /\ ep_pc = "validate"
    /\ LET status == validate_video_file(ep_filename, ep_size, video_max_size)
       IN IF status # 0
          THEN Respond(status)
          ELSE ep_pc' = "verify" /\ UNCHANGED ep_status
    /\ UNCHANGED <<video_max_size, ep_filename, ep_size, ep_length, ep_session,
                   ep_result, ep_calls, ep_rows>>
    /\ UNCHANGED notEndpointVars

\* upload_video line 171 and _verify_session, lines 69-81; an exception of
\* the query is not caught and the server answers 500.
VerifySession(raises) ==
    /\ ep_pc = "verify"
    /\ IF raises THEN Respond(500)
       ELSE IF ~ep_session THEN Respond(404)
       ELSE ep_pc' = "read" /\ UNCHANGED ep_status
    /\ UNCHANGED <<video_max_size, ep_filename, ep_size, ep_length, ep_session,
                   ep_result, ep_calls, ep_rows>>
    /\ UNCHANGED notEndpointVars

\* upload_video, lines 173-186: read, then the size check on the content.
ReadContent(raises) ==
    /\ ep_pc = "read"
    /\ IF raises THEN Respond(500)
       ELSE IF ep_length > video_max_size THEN Respond(413)
       ELSE ep_pc' = "upload" /\ UNCHANGED ep_status
    /\ UNCHANGED <<video_max_size, ep_filename, ep_size, ep_length, ep_session,
                   ep_result, ep_calls, ep_rows>>
    /\ UNCHANGED notEndpointVars

\* upload_video, lines 189-201 and 234-244: the adapter returns a result
\* with success true or false, or raises.
StoreVideo(outcome, path) ==
    /\ ep_pc = "upload"
    /\ ep_calls' = ep_calls + 1
    /\ CASE outcome = "success" ->
              /\ ep_result' = EndpointResult(TRUE, path)
              /\ ep_pc' = "record"
              /\ UNCHANGED ep_status
         [] outcome = "failure" ->
              /\ ep_result' = EndpointResult(FALSE, "")
              /\ Respond(500)
         [] outcome = "raises" ->
              /\ UNCHANGED ep_result
              /\ Respond(500)
    /\ UNCHANGED <<video_max_size, ep_filename, ep_size, ep_length, ep_session,
                   ep_rows>>
    /\ UNCHANGED notEndpointVars

\* upload_video, lines 203-232 and 236-244: the row is added and committed;
\* when the commit raises, no row is stored and the answer is 500.
RecordChunk(raises) ==
    /\ ep_pc = "record"
    /\ IF raises
       THEN Respond(500) /\ UNCHANGED ep_rows
       ELSE Respond(200) /\ ep_rows' = Append(ep_rows, ep_result.path)
    /\ UNCHANGED <<video_max_size, ep_filename, ep_size, ep_length, ep_session,
                   ep_result, ep_calls>>
    /\ UNCHANGED notEndpointVars

NextEndpoint ==
    \/ Validate
    \/ \E raises \in BOOLEAN : VerifySession(raises)
    \/ \E raises \in BOOLEAN : ReadContent(raises)
    \/ \E outcome \in {"success", "failure", "raises"}, path \in StoredPaths :
          StoreVideo(outcome, path)
    \/ \E raises \in BOOLEAN : RecordChunk(raises)

InitUploadEndpoint == InitEndpoint /\ IdleModel /\ IdleRegistry /\ IdleManager
    /\ IdleRace

SpecEndpoint == InitUploadEndpoint /\ [][NextEndpoint]_vars

(***************************************************************************)
(* Properties of the ingestion handler (specification Spec).               *)
(***************************************************************************)
\* The rows a stream's received frames become, in receive order.
ExpectedRows(s) ==
    [i \in 1..Len(received[s]) |->
        [session_id |-> session_id[s], robot_id |-> RobotOf[s],
         frame_index |-> received[s][i].frame_index, data |-> received[s][i].data]]

\* The stream was closed by the client and its close path ran to the end
\* (a store error or a cancellation on the way changes `ending`).
ClosedGracefully(s) == pc[s] = "done" /\ ending[s] = "disconnect"

HasBuffer(s) == buffer[s] # NoObject

KeyOf(s) == BufferKey(RobotOf[s], session_id[s])

\* C1: a stream that delivered N valid frames and then closed gracefully, with
\* no store error, has exactly its N frames persisted under its session, each
\* once and in receive order, whatever their frame_index values are.
C1_PersistedInReceiveOrder ==
    \A s \in Streams :
        ClosedGracefully(s) => SessionFrames(session_id[s]) = ExpectedRows(s)

C1_Witness ==
    \E s \in Streams :
        /\ ClosedGracefully(s)
        /\ Len(received[s]) >= 3
        /\ Len(SessionCommits(session_id[s])) >= 2
        /\ received[s][1].frame_index > received[s][2].frame_index
        /\ received[s][2].frame_index = received[s][3].frame_index

\* C2: after a graceful close of a stream with N frames and buffer size B there
\* were exactly ceil(N / B) batch commits: floor(N / B) from add, and one from
\* flush_all iff N mod B # 0; flush_count equals ceil(N / B).
C2_CommitCount ==
    \A s \in Streams :
        ClosedGracefully(s) =>
            LET N  == Len(received[s])
                B  == tbuf[buffer[s]].buffer_size
                cs == SessionCommits(session_id[s])
            IN  /\ Len(cs) = CeilDiv(N, B)
                /\ Len(SelectSeq(cs, LAMBDA c : c.via = "add")) = N \div B
                /\ Len(SelectSeq(cs, LAMBDA c : c.via = "flush_all"))
                       = (IF N % B # 0 THEN 1 ELSE 0)
                /\ tbuf[buffer[s]].flush_count = CeilDiv(N, B)

C2_Witness ==
    \E s \in Streams :
        /\ ClosedGracefully(s)
        /\ Len(received[s]) = 3
        /\ tbuf[buffer[s]].buffer_size = 2
        /\ tbuf[buffer[s]].flush_count = 2

\* C3 (as claimed): a message that is not valid JSON never makes the handler
\* leave its receive loop.
C3_MalformedKeepsStreamOpen ==
    \A s \in Streams : pc[s] \in {"finally", "done"} => ending[s] # "malformed"

\* C4 (as claimed): a failed batch commit inside add never makes the handler
\* leave its receive loop; ingestion resumes on the same session.
C4_CommitErrorResumes ==
    \A s \in Streams : pc[s] \in {"finally", "done"} => ending[s] # "commit_error"

\* C5: absent store errors, between two messages the buffer holds fewer than
\* batch_size frames and fewer than batch_size received frames are unpersisted;
\* when the connection is lost after k frames at least
\* batch_size * floor(k / batch_size) frames are persisted and the session row
\* created at open still exists.
C5_BoundedUnpersisted ==
    \A s \in Streams :
        (/\ HasBuffer(s)
         /\ \/ pc[s] = "recv"
            \/ ending[s] \in {"disconnect", "error", "malformed",
                              "cancelled_recv", "cancelled_close"})
        => LET k == Len(received[s])
               B == tbuf[buffer[s]].buffer_size
               p == Len(SessionFrames(session_id[s]))
           IN  /\ p >= B * (k \div B)
               /\ session_id[s] \in 1..Len(teleop_sessions)
               /\ pc[s] = "recv" =>
                     /\ pending_count(tbuf[buffer[s]]) < B
                     /\ k - p < B

C5_Witness ==
    \E s \in Streams :
        /\ pc[s] = "done"
        /\ ending[s] = "error"
        /\ tbuf[buffer[s]].buffer_size = 2
        /\ Len(received[s]) = 3
        /\ Len(SessionFrames(session_id[s])) = 2

\* C6 (as claimed): whenever the handler of an accepted stream that reached its
\* receive loop has returned, for whatever reason, its handle is no longer
\* registered and its buffer is no longer held by the TelemetryManager.
C6_ClosePathAlwaysRuns ==
    \A s \in Streams :
        (pc[s] = "done" /\ HasBuffer(s)) =>
            /\ s \notin Range(active_connections)
            /\ KeyOf(s) \notin DOMAIN mgr_buffers

\* C7: on graceful close the handle is deregistered before the residual flush,
\* the metrics are read after the flush and count every frame of the stream,
\* and the buffer is removed from the manager only after the metrics were read;
\* afterwards the buffer is empty and the manager has no entry for the key.
C7_GracefulCloseOrder ==
    \A s \in Streams :
        /\ pc[s] \in {"close_flush", "close_commit", "close_metrics", "close_remove"}
              => s \notin Range(active_connections)
        /\ pc[s] \in {"close_flush", "close_commit", "close_metrics"}
              => metrics[s] = NoMetrics
        /\ pc[s] \in {"close_flush", "close_commit", "close_metrics", "close_remove"}
              => KeyOf(s) \in DOMAIN mgr_buffers
        /\ metrics[s] # NoMetrics =>
              /\ s \notin Range(active_connections)
              /\ metrics[s].pending_frames = 0
              /\ metrics[s].total_frames = Len(received[s])
              /\ metrics[s].flush_count = Len(SessionCommits(session_id[s]))
        /\ (HasBuffer(s) /\ KeyOf(s) \notin DOMAIN mgr_buffers) => metrics[s] # NoMetrics
        /\ (pc[s] \in {"finally", "done"} /\ ending[s] = "disconnect") =>
              /\ metrics[s] # NoMetrics
              /\ pending_count(tbuf[buffer[s]]) = 0
              /\ KeyOf(s) \notin DOMAIN mgr_buffers

C7_Witness ==
    \E s \in Streams :
        /\ ClosedGracefully(s)
        /\ metrics[s] # NoMetrics
        /\ metrics[s].total_frames = 3
        /\ \E i \in 1..Len(frame_commits) :
              /\ frame_commits[i].session_id = session_id[s]
              /\ frame_commits[i].via = "flush_all"

\* C8 (as claimed): when the residual flush at close fails, the error is
\* contained: the buffer is still removed from the manager, the store session
\* is closed and no exception leaves the handler.
C8_CloseFlushErrorContained ==
    \A s \in Streams :
        (pc[s] = "done" /\ ending[s] = "close_commit_error") =>
            /\ ~escaped[s]
            /\ KeyOf(s) \notin DOMAIN mgr_buffers
            /\ session_db[s] = "closed"

(***************************************************************************)
(* Properties of the concurrently called buffer (specification SpecBuffer).*)
(***************************************************************************)
\* The batches drained from the list whose commit is still awaited.
InFlight ==
    LET RECURSIVE Cat(_)
        Cat(S) == IF S = {} THEN <<>>
                  ELSE LET t == CHOOSE t \in S : \A u \in S : t <= u
                       IN  tb_batch[t] \o Cat(S \ {t})
    IN  Cat(Tasks)

\* sub is obtained from seq by deleting elements.
RECURSIVE IsSubSeq(_, _)
IsSubSeq(sub, seq) ==
    IF sub = <<>> THEN TRUE
    ELSE IF seq = <<>> THEN FALSE
    ELSE IF Head(sub) = Head(seq) THEN IsSubSeq(Tail(sub), Tail(seq))
    ELSE IsSubSeq(sub, Tail(seq))

\* C9: for every interleaving of add and flush_all calls on one buffer, at most
\* one call is between draining the list and the end of its commit; the
\* committed batches, concatenated in commit order, hold frames in append order
\* and none twice; and as long as no commit has failed, every appended frame is
\* in exactly one of: a committed batch, the batch being committed, the list.
C9_AppendFlushSerialized ==
    /\ Cardinality({t \in Tasks : tb_pc[t] \in {"add_commit", "flush_commit"}}) <= 1
    /\ IsSubSeq(Flatten(tb_store) \o DbFrames(InFlight) \o DbFrames(tb.buffer),
                DbFrames(tb_appended))
    /\ ~tb_failed =>
          Flatten(tb_store) \o DbFrames(InFlight) \o DbFrames(tb.buffer)
              = DbFrames(tb_appended)
    /\ (~tb_failed /\ tb.buffer = <<>> /\ \A t \in Tasks : tb_pc[t] = "idle") =>
          /\ Flatten(tb_store) = DbFrames(tb_appended)
          /\ tb.total_frames = Len(tb_appended)

\* After earlier commits, an add has arrived while a flush_all call awaits the
\* store, and waits for the lock.
C9_Witness ==
    /\ ~tb_failed
    /\ Len(tb_store) >= 2
    /\ \E t \in Tasks :
          /\ tb_pc[t] = "flush_commit"
          /\ \E u \in Tasks : tb_pc[u] = "add_wait"
    /\ tb.buffer_size = 2

(***************************************************************************)
(* Properties of the uploader (specification SpecUpload).                  *)
(***************************************************************************)
\* The remote calls of a complete multipart upload of `bytes` with chunk size C.
ExpectedMultipart(bytes, C) ==
    LET L == Len(bytes)
        K == CeilDiv(L, C)
    IN  <<S3Call("create_multipart_upload", 0, <<>>, <<>>)>>
        \o [i \in 1..K |->
               S3Call("upload_part", i, SubSeq(bytes, (i - 1) * C + 1, Min(i * C, L)), <<>>)]
        \o <<S3Call("complete_multipart_upload", 0, <<>>, [i \in 1..K |-> i])>>

IsPrefix(p, s) == Len(p) <= Len(s) /\ SubSeq(s, 1, Len(p)) = p

\* C10: a remote upload of L bytes makes, for L < threshold, exactly one
\* put_object call and no multipart call; for L >= threshold with chunk size C
\* it makes one create_multipart_upload, then upload_part calls numbered
\* 1..ceil(L / C) in order, part i carrying bytes [(i-1)C, min(iC, L)), then one
\* complete_multipart_upload listing parts 1..K in order; a failing call cuts
\* the sequence short, never reorders it.
C10_RemoteCallSequence ==
    LET L == Len(content)
        calls == SelectSeq(s3_calls, LAMBDA c : c.op # "abort_multipart_upload")
        bodies == [i \in 1..Len(calls) |-> calls[i].Body]
    IN
    /\ L < multipart_threshold =>
          /\ IsPrefix(s3_calls, <<S3Call("put_object", 0, content, <<>>)>>)
          /\ (up_pc = "returned" /\ up_result.storage_type = "s3") => Len(s3_calls) = 1
    /\ L >= multipart_threshold =>
          /\ IsPrefix(calls, ExpectedMultipart(content, multipart_chunk_size))
          /\ (up_pc = "returned" /\ up_result.success /\ up_result.storage_type = "s3") =>
                /\ s3_calls = ExpectedMultipart(content, multipart_chunk_size)
                /\ Flatten(bodies) = content

\* A payload of 5 with threshold 4 and chunk 2: create, 3 parts (2 + 2 + 1
\* bytes), complete.
C10_Witness ==
    /\ up_pc = "returned"
    /\ up_result.success
    /\ up_result.storage_type = "s3"
    /\ Len(content) = 5
    /\ multipart_threshold = 4
    /\ multipart_chunk_size = 2
    /\ Len(s3_calls) = 5
    /\ s3_calls[4].Body = <<5>>

CallsOf(op) == SelectSeq(s3_calls, LAMBDA c : c.op = op)

LastCall == s3_calls[Len(s3_calls)]

\* An upload_part call of the current upload has failed: it was made and its
\* part was not appended to `parts`.
PartFailed == Len(CallsOf("upload_part")) > Len(parts)

\* C11: when an upload_part call of a multipart upload fails, the next remote
\* call is abort_multipart_upload and it is the last one: no further part is
\* uploaded, complete_multipart_upload is never called, and the call returns a
\* failed result of kind s3 with error set and an empty path.
C11_PartFailureAborts ==
    PartFailed =>
        /\ Len(CallsOf("upload_part")) = Len(parts) + 1
        /\ CallsOf("complete_multipart_upload") = <<>>
        /\ up_pc \in {"abort", "returned", "cancelled"}
        /\ up_pc = "abort" => LastCall.op = "upload_part"
        /\ up_pc \in {"returned", "cancelled"} =>
              /\ LastCall.op = "abort_multipart_upload"
              /\ Len(CallsOf("abort_multipart_upload")) = 1
              /\ s3_calls[Len(s3_calls) - 1].op = "upload_part"
        /\ up_pc = "returned" =>
              /\ ~up_result.success
              /\ up_result.storage_type = "s3"
              /\ up_result.error # None
              /\ up_result.path = ""

\* The second of three parts failed: create, part 1, part 2, abort.
C11_Witness ==
    /\ up_pc = "returned"
    /\ PartFailed
    /\ Len(parts) = 1
    /\ NumParts(Len(content), multipart_chunk_size) = 3
    /\ Len(s3_calls) = 4
    /\ LastCall.op = "abort_multipart_upload"
    /\ ~up_result.success

\* C12 (as claimed): a multipart upload that was initiated and whose task was
\* then cancelled has had abort_multipart_upload invoked.
C12_CancelAborts ==
    (up_pc = "cancelled" /\ part_num >= 1) =>
        CallsOf("abort_multipart_upload") # <<>>

\* C13 (as claimed): once the creation of the remote client has failed, no
\* client exists, no call enters the remote backend and no result is of kind
\* s3, for the rest of the process.
C13_StickyBackend ==
    init_failed =>
        /\ s3_client = None
        /\ up_pc \notin {"put", "create", "part", "complete", "abort"}
        /\ up_result.storage_type # "s3"

\* C14 (as claimed): upload_video never raises; a returned result is either a
\* success carrying the URI or path of the stored object, or a failure with
\* an error and an empty path.
C14_NeverRaises ==
    /\ up_pc # "raised"
    /\ up_pc = "returned" =>
          \/ up_result.success /\ up_result.path \notin {"", None}
                /\ up_result.error = None
          \/ ~up_result.success /\ up_result.path = ""
                /\ up_result.error \notin {"", None}

(***************************************************************************)
(* Properties of the status cache (specification SpecCache).               *)
(***************************************************************************)
\* What get_robot_status(r) and get_online_robots would return now.
StatusOf(r) == GetValue(cache_status[r], now, NoStatus)
OnlineList == GetValue(cache_online, now, {})

\* The operation that has just been called returned `op`'s result.
Returned(op) == cache_ret.op = op /\ ~cache_ret.raised

\* The largest ttl among the last updates, and at least the default.
MaxTtlInUse ==
    LET used == {last_update[r].ttl : r \in Robots} \cup {DefaultTtl}
    IN  CHOOSE m \in used : \A x \in used : x <= m

\* C15 (as claimed): a get of a robot whose last update was written at time t
\* with ttl T, and which was not removed since, returns that record when it is
\* called before t + T and misses when it is called at t + T or later.
C15_ExpiresAtTtl ==
    LET u == last_update[cache_ret.robot_id]
    IN  (Returned("get") /\ u.written /\ ~u.removed) =>
            /\ cache_ret.found <=> cache_ret.at < u.at + u.ttl
            /\ cache_ret.found => cache_ret.value = u.value

\* C16 (as claimed): once more than twice the ttl has passed since the last
\* update of robot r, whatever was done for other robots, get(r) misses and
\* list_online() does not return r.
C16_GoneAfterTwiceTtl ==
    \A r \in Robots :
        (last_update[r].written /\ cache_ret.at > last_update[r].at + 2 * MaxTtlInUse) =>
            /\ (Returned("get") /\ cache_ret.robot_id = r) => ~cache_ret.found
            /\ Returned("list_online") => r \notin cache_ret.members

\* C17 (as claimed): a remove_robot(r) call that returns leaves no record and
\* no online membership of r, leaves the records and memberships of the other
\* robots as they were, and returns true, counting one eviction, only when a
\* record of r existed, i.e. when get(r) would have returned one.
C17_RemoveDeletes ==
    [][(op_count' # op_count /\ cache_ret'.op = "remove" /\ ~cache_ret'.raised) =>
          \A r \in Robots : cache_ret'.robot_id = r =>
              /\ StatusOf(r)' = NoStatus
              /\ r \notin OnlineList'
              /\ \A q \in Robots \ {r} :
                    /\ StatusOf(q)' = StatusOf(q)
                    /\ (q \in OnlineList') = (q \in OnlineList)
              /\ stats'.evictions = stats.evictions + (IF cache_ret'.found THEN 1 ELSE 0)
              /\ cache_ret'.found => StatusOf(r) # NoStatus]_vars

\* C18 (as claimed): an invalidate_session(s) call that returns leaves no
\* online robot with a record of session s, leaves the records of other
\* sessions as they were, and returns the number of records that had session s.
C18_InvalidateSession ==
    [][(op_count' # op_count /\ cache_ret'.op = "invalidate_session"
           /\ ~cache_ret'.raised) =>
          \A sid \in SessionIds : cache_ret'.session_id = sid =>
              /\ \A q \in OnlineList' : StatusOf(q)'.session_id # sid
              /\ \A q \in Robots :
                    StatusOf(q).session_id # sid => StatusOf(q)' = StatusOf(q)
              /\ cache_ret'.count
                    = Cardinality({q \in Robots : StatusOf(q).session_id = sid})]_vars

C20_BackendErrorRecovered ==
    ~cache_ret.raised

(***************************************************************************)
(* Properties of the two cache backends (specification SpecCachePair).     *)
(***************************************************************************)
\* C21 (as claimed): given the same calls at the same times, the RobotCache
\* over the in-process map and the RobotCache over Redis return the same
\* result from every call.
C21_BackendsAgree ==
    pair_ret.mem = pair_ret.redis

\* The images of camera c in a merged frame.
ImagesOf(frame, c) == { x \in frame.images : x.camera_key = c }

\* The id of camera c's first chunk in start_timestamp order, 0 if it has none.
FirstChunk(c) ==
    LET mine == { i \in 1 .. Len(db_chunks) : db_chunks[i].camera_key = c }
    IN  IF mine = {} THEN 0 ELSE CHOOSE i \in mine : \A j \in mine : i <= j

MergeReturned == mg_pc = "done"

\* C22: every merge result has matched + skipped = total and matched <= total;
\* on success total is the number of frames loaded, every loaded frame is in
\* the dataset exactly once in frame_index order, matched counts the frames
\* with at least one image and skipped the frames with none.
C22_MergeCounts ==
    mg_result # NoMergeResult =>
        /\ mg_result.matched_frames + mg_result.skipped_frames = mg_result.total_frames
        /\ mg_result.matched_frames <= mg_result.total_frames
        /\ mg_result.success =>
              /\ mg_result.total_frames = Len(db_frames)
              /\ Len(dataset.frames) = Len(db_frames)
              /\ \A i \in 1 .. Len(db_frames) :
                    dataset.frames[i].frame_index = db_frames[i].frame_index
              /\ mg_result.matched_frames =
                    Cardinality({ i \in 1 .. Len(merged) : merged[i].images # {} })
              /\ mg_result.skipped_frames =
                    Cardinality({ i \in 1 .. Len(merged) : merged[i].images = {} })

\* C22 witness: a successful merge with a matched and a skipped frame.
C22_Witness ==
    /\ MergeReturned
    /\ mg_result.success
    /\ mg_result.matched_frames >= 1
    /\ mg_result.skipped_frames >= 1

\* relative time of merged frame i in the file opened for camera c
RelativeTime(i, c) == merged[i].timestamp - db_chunks[extractors[c]].start_timestamp

\* relative lies in [0, video_duration], both endpoints included
InRange(relative) ==
    relative >= 0 /\ relative * video_fps <= video_total_frames * TicksPerSecond

VideoFrameIndex(relative) == (relative * video_fps) \div TicksPerSecond

\* the decoder returns the video frame at idx
Decodes(idx, bad) == idx < video_total_frames /\ idx # bad

Aligned(bad) ==
    /\ \A i \in 1 .. Len(merged) : \A c \in PreparedCameras :
          LET relative == RelativeTime(i, c)
              idx == VideoFrameIndex(relative)
          IN  /\ InRange(relative) /\ Decodes(idx, bad) =>
                    ImagesOf(merged[i], c) =
                        {[camera_key |-> c, file |-> extractors[c], frame_idx |-> idx]}
              /\ ~InRange(relative) => ImagesOf(merged[i], c) = {}
    /\ \A i \in 1 .. Len(merged) :
          merged[i].images = {} =>
              \A c \in Cameras : c \notin PreparedCameras \/ ~InRange(RelativeTime(i, c))

\* C23 (as claimed): after _merge_frames, for every frame and every prepared
\* camera, with relative = frame timestamp - chunk start: relative in
\* [0, video_duration] and a successful decode give the image at video frame
\* floor(relative * fps), relative outside gives no image, and a frame has zero
\* images only when every camera is absent or out of range for it.
C23_AlignmentRule ==
    [][\A bad \in BadFrames : MergeFrames(bad) => Aligned(bad)']_vars

\* C24 (as claimed): for every prepared camera the opened file and the start
\* timestamp used for relative time both belong to the camera's first chunk.
C24_SameFirstChunk ==
    mg_pc \in {"export", "close", "done"} =>
        \A c \in PreparedCameras :
            /\ extractors[c] = FirstChunk(c)
            /\ CameraStartTime(db_chunks, c) = db_chunks[FirstChunk(c)].start_timestamp

\* downloading or opening camera c's first chunk failed
FirstChunkFailed(c) ==
    /\ FirstChunk(c) \in Range(downloads)
    /\ extractors[c] # FirstChunk(c)

\* C25 (as claimed): a camera whose first chunk failed to download or open is
\* dropped: it is not in result.cameras and gives no image to any frame, and
\* the merge goes on and succeeds.
C25_FailedCameraDropped ==
    \A c \in Cameras :
        (mg_pc \in {"export", "close", "done"} /\ FirstChunkFailed(c)) =>
            /\ c \notin PreparedCameras
            /\ \A i \in 1 .. Len(merged) : ImagesOf(merged[i], c) = {}
            /\ c \notin mg_result.cameras
            /\ MergeReturned => (mg_result.success \/ mg_result.error = "export raised")

\* the cameras that produced at least one image over the session's frames
ProducingCameras ==
    { c \in Cameras : \E i \in 1 .. Len(merged) : ImagesOf(merged[i], c) # {} }

\* C26 (as claimed): the dataset has an image feature exactly for the cameras
\* that produced at least one image, and use_videos only if there is one.
C26_FeaturesOfProducingCameras ==
    dataset.created =>
        /\ dataset.features = ProducingCameras
        /\ dataset.use_videos = (ProducingCameras # {})

\* C27: with the session row absent or no frames, merge returns success=false
\* with an error, zero totals and no cameras, and no video is downloaded, no
\* extractor opened and no dataset created.
C27_FailFast ==
    (~db_session \/ db_frames = <<>>) =>
        /\ downloads = <<>>
        /\ PreparedCameras = {}
        /\ dataset = NoDataset
        /\ MergeReturned =>
              /\ ~mg_result.success
              /\ mg_result.error # "None"
              /\ mg_result.total_frames = 0
              /\ mg_result.matched_frames = 0
              /\ mg_result.skipped_frames = 0
              /\ mg_result.cameras = {}

\* C27 witness: a merge of a session with video chunks but no frames returned.
C27_Witness ==
    /\ MergeReturned
    /\ db_session
    /\ db_frames = <<>>
    /\ db_chunks # <<>>
    /\ mg_result.error = "no frames"

\* the least |ts[i] - target| over the list, by linear scan
MinDiff(ts, target) ==
    CHOOSE d \in { Abs(ts[i] - target) : i \in 1 .. Len(ts) } :
        \A i \in 1 .. Len(ts) : d <= Abs(ts[i] - target)

PresentedKey(s) ==
    IF presented[s].header # None THEN presented[s].header ELSE presented[s].query

\* verify_ws_api_key has answered stream s
Verified(s) == pc[s] # "start"

\* stream s was never registered and has no session row and no buffer
NeverAdmitted(s) ==
    /\ pc[s] = "rejected"
    /\ \A i \in 1 .. Len(active_connections) : active_connections[i] # s
    /\ session_id[s] = 0
    /\ buffer[s] = NoObject
    /\ session_db[s] = "none"

\* C29 (as claimed): with API_KEY set, a stream with a wrong key is closed with
\* 4003 and a stream with no key with 4001, and neither is ever registered or
\* given a session row or a buffer.
C29_RejectCodes ==
    \A s \in Streams :
        (API_KEY # None /\ Verified(s)) =>
            /\ PresentedKey(s) = None => (close_code[s] = 4001 /\ NeverAdmitted(s))
            /\ PresentedKey(s) \notin {None, API_KEY} =>
                  (close_code[s] = 4003 /\ NeverAdmitted(s))

\* C30 (as claimed): with API_KEY set, a stream with the correct key in the
\* header or in the query parameter is accepted; with API_KEY unset every
\* stream is accepted.
C30_CorrectKeyAccepted ==
    \A s \in Streams :
        (Verified(s) /\ (API_KEY = None \/ PresentedKey(s) = API_KEY)) =>
            (pc[s] # "rejected" /\ close_code[s] = 0)

\* the handler of stream s has been left after its session row was created
StreamClosed(s) == pc[s] = "done" /\ session_id[s] # 0

\* C34 (as claimed): the session row of a stream exists before any frame of
\* the stream is persisted, and every session whose stream has closed has a
\* non-null end_time.
C34_SessionLifecycle ==
    \A s \in Streams :
        /\ session_id[s] = 0 => received[s] = <<>>
        /\ StreamClosed(s) => teleop_sessions[session_id[s]].end_time # None

\* C36: for every interleaving of the open streams (both of the same robot),
\* each stream has a session and a buffer of its own, every persisted frame is
\* stored under the session of the stream it arrived on, and the metrics of a
\* stream count its own frames only.
C36_StreamsIsolated ==
    /\ \A s, t \in Streams :
          s # t =>
              /\ (session_id[s] # 0 /\ session_id[t] # 0) => session_id[s] # session_id[t]
              /\ (HasBuffer(s) /\ HasBuffer(t)) => buffer[s] # buffer[t]
    /\ \A s \in Streams :
          /\ HasBuffer(s) =>
                /\ tbuf[buffer[s]].session_id = session_id[s]
                /\ \A i \in 1 .. Len(tbuf[buffer[s]].buffer) :
                      tbuf[buffer[s]].buffer[i].session_id = session_id[s]
          /\ session_id[s] # 0 =>
                IsSubSeq(SessionFrames(session_id[s]), ExpectedRows(s))
          /\ metrics[s] # NoMetrics =>
                /\ metrics[s].session_id = session_id[s]
                /\ metrics[s].total_frames = Len(SessionFrames(session_id[s]))
    /\ \A i \in 1 .. Len(teleop_frames) :
          \E s \in Streams : teleop_frames[i].session_id = session_id[s]

\* C36 witness: two streams of one robot are open at once and their batches
\* were committed alternately.
C36_Witness ==
    /\ \A s \in Streams : pc[s] = "recv"
    /\ Len(frame_commits) >= 3
    /\ frame_commits[1].session_id # frame_commits[2].session_id
    /\ frame_commits[2].session_id # frame_commits[3].session_id

\* C38: in every state of a TelemetryBuffer total_frames is the number of
\* frames in the committed batches and flush_count the number of successful
\* commits; a failed commit changes neither and leaves the buffer empty, the
\* frames of its batch being neither counted nor kept.
C38_CountersFollowCommits ==
    [][ /\ tb'.total_frames = Len(Flatten(tb_store'))
        /\ tb'.flush_count = Len(tb_store')
        /\ \A t \in Tasks :
              CommitFail(t) =>
                  /\ tb'.total_frames = tb.total_frames
                  /\ tb'.flush_count = tb.flush_count
                  /\ tb_store' = tb_store
                  /\ tb'.buffer = <<>>
                  /\ tb_batch'[t] = <<>> ]_vars

\* C38 witness: a commit has failed after another one had succeeded.
C38_Witness ==
    /\ tb_failed
    /\ tb.flush_count >= 1
    /\ tb.total_frames < Len(tb_appended)
    /\ tb.buffer = <<>>
    /\ \A t \in Tasks : tb_pc[t] = "idle"

\* C39 (as claimed): in runs without store errors, every state another task
\* can read through get_metrics has total_frames + pending_frames equal to the
\* number of frames appended so far.
C39_MetricsConserveFrames ==
    ~tb_failed =>
        get_metrics(tb).total_frames + get_metrics(tb).pending_frames = Len(tb_appended)

\* the online set of a backend at time t, by its expiry
OnlineAt(b, t) == IF Live(b.online, t) THEN b.online.value ELSE {}

\* the records get_online_robot_statuses has to return from backend b
ExpectedStatuses(b, t) ==
    { b.status[r].value : r \in { x \in OnlineAt(b, t) : Live(b.status[x], t) } }

StatusesExact(ret, b, t) ==
    /\ ret.statuses = ExpectedStatuses(b, t)
    /\ \A st \in ret.statuses : st.robot_id \in OnlineAt(b, t)
    /\ \A st1, st2 \in ret.statuses : st1.robot_id = st2.robot_id => st1 = st2
    /\ \A r \in OnlineAt(b, t) :
          ~Live(b.status[r], t) => \A st \in ret.statuses : st.robot_id # r

C31_BroadcastSwallowsErrors ==
    /\ bc_pc # "raised"
    /\ (bc_pc = "returned" /\ cm_connections = bc_snapshot) =>
          \A h \in Handles : InList(bc_snapshot, h) => InList(bc_attempted, h)

Others(list, h) == SelectSeq(list, LAMBDA x : x # h)

\* C32: a returning connect registers its handle; after disconnect(h) the
\* handle is not registered and the other handles are registered as before;
\* disconnect of an absent handle changes nothing; count is the number of
\* handles connected and not yet disconnected.
C32_RegistryMembership ==
    [][/\ \A h \in Handles :
            /\ ConnectAppend(h) =>
                  /\ InList(cm_connections', h)
                  /\ Others(cm_connections', h) = Others(cm_connections, h)
            /\ Disconnect(h) =>
                  /\ ~InList(cm_connections', h)
                  /\ Others(cm_connections', h) = Others(cm_connections, h)
                  /\ ~InList(cm_connections, h) => cm_connections' = cm_connections
       /\ cm_connection_count' = Cardinality(cm_expected')]_vars

\* C32 witness: three handles were connected and the middle one was
\* disconnected: the other two are registered in their order and counted.
C32_Witness ==
    /\ cm_connections = <<1, 3>>
    /\ cm_expected = {1, 3}
    /\ cn_pc[2] = "returned"

SamePair(e1, e2) == e1.robot_id = e2.robot_id /\ e1.session_id = e2.session_id
IsGet(e) == e.op = "get_or_create_buffer"
\* no remove_buffer of the pair of tm_log[i] between calls i and j
Kept(log, i, j) ==
    \A k \in (i + 1)..(j - 1) : ~(log[k].op = "remove_buffer" /\ SamePair(log[k], log[i]))

OneBufferPerPair(log) ==
    \A i, j \in DOMAIN log :
        (i < j /\ IsGet(log[i]) /\ IsGet(log[j])) =>
            /\ (SamePair(log[i], log[j]) /\ Kept(log, i, j)) => log[i].ret = log[j].ret
            /\ ~SamePair(log[i], log[j]) => log[i].ret.id # log[j].ret.id
            /\ log[j].ret.robot_id = log[j].robot_id
            /\ log[j].ret.session_id = log[j].session_id

\* the objects the manager holds for a pair: the buffers made for it
HeldFor(buffers, robot_id, sid) ==
    {k \in DOMAIN buffers :
         buffers[k].robot_id = robot_id /\ buffers[k].session_id = sid}

\* C35: get_or_create_buffer calls for one (robot_id, session_id), in any
\* order with other calls, return the same buffer object as long as it is not
\* removed, and construct it once; calls for different pairs return different
\* objects; the manager holds at most one buffer per pair; remove_buffer
\* deletes the buffer of its own pair only and changes nothing when the pair
\* has none.
C35_OneBufferPerKey ==
    [][/\ OneBufferPerPair(tm_log')
       /\ \A sid \in ManagerSessionIds, robot_id \in ManagerRobotIds :
            /\ Cardinality(HeldFor(tm_buffers', robot_id, sid)) <= 1
            /\ GetOrCreateBuffer(sid, robot_id) =>
                  (HeldFor(tm_buffers, robot_id, sid) # {} => tm_created' = tm_created)
            /\ RemoveBuffer(sid, robot_id) =>
                  /\ HeldFor(tm_buffers', robot_id, sid) = {}
                  /\ \A k \in DOMAIN tm_buffers :
                        k \notin HeldFor(tm_buffers, robot_id, sid) =>
                            k \in DOMAIN tm_buffers' /\ tm_buffers'[k] = tm_buffers[k]
                  /\ HeldFor(tm_buffers, robot_id, sid) = {} => tm_buffers' = tm_buffers]_vars

\* C35 witness: robot "a" with session 11 and robot "a1" with session 1 got
\* different buffers, a second call for the first pair got the first buffer
\* again, and the buffer of the second pair was removed.
C35_Witness ==
    /\ Len(tm_log) = 4
    /\ IsGet(tm_log[1]) /\ tm_log[1].robot_id = <<"a">> /\ tm_log[1].session_id = 11
    /\ IsGet(tm_log[2]) /\ tm_log[2].robot_id = <<"a", "1">> /\ tm_log[2].session_id = 1
    /\ IsGet(tm_log[3]) /\ SamePair(tm_log[3], tm_log[1]) /\ tm_log[3].ret = tm_log[1].ret
    /\ tm_log[4].op = "remove_buffer" /\ SamePair(tm_log[4], tm_log[2])
    /\ DOMAIN tm_buffers = {ManagerKey(<<"a">>, 11)}

BothReturned == \A t \in RaceTasks : rc_pc[t] = "done"
RaceUpdated == {rc_call[t].robot : t \in {u \in RaceTasks : rc_call[u].op = "update"}}
RaceRemoved == {rc_call[t].robot : t \in {u \in RaceTasks : rc_call[u].op = "remove"}}

\* C40: once two concurrent calls on the in-process backend (two updates of
\* different robots, or an update and a remove of another robot) have both
\* returned, every updated robot is in the online set and so is every robot
\* that was in it before and was not removed.
C40_NoLostMember ==
    BothReturned =>
        /\ RaceUpdated \subseteq rc_memory.online.value
        /\ (rc_before \ RaceRemoved) \subseteq rc_memory.online.value

BadExtension == Extension(ep_filename) \notin VIDEO_ALLOWED_EXTENSIONS
HintTooLarge == ep_size.given /\ ep_size.size > video_max_size
Rejected(status) ==
    ep_status = status /\ ep_calls = 0 /\ ep_rows = <<>>

\* the rejections of a request and their statuses
RejectionsMapped ==
    ep_pc = "responded" =>
        /\ BadExtension => Rejected(400)
        /\ (~BadExtension /\ HintTooLarge) => Rejected(413)
        /\ (~BadExtension /\ ~HintTooLarge /\ ~ep_session) =>
              (Rejected(404) \/ Rejected(500))
        /\ (~BadExtension /\ ~HintTooLarge /\ ep_session
            /\ ep_length > video_max_size) =>
              (Rejected(413) \/ Rejected(500))
        /\ ep_calls = 0 => ep_rows = <<>>
        /\ (ep_calls = 1 /\ ~ep_result.success) => (ep_status = 500 /\ ep_rows = <<>>)

\* C33: a request answered after the adapter reported success has recorded
\* exactly one video_chunk row, holding the path the adapter returned; a
\* rejected request has recorded no row and never called the adapter, with
\* 400 for an extension outside the allow-list, 413 for a size above the
\* maximum by declared size or by the content read, 404 for an unknown
\* session; an adapter result with success false gives 500 and no row.
C33_UploadEndpointMapping ==
    /\ RejectionsMapped
    /\ (ep_pc = "responded" /\ ep_result.success) => ep_rows = <<ep_result.path>>

====
